---------------------------- MODULE Spec2Model ----------------------------
(***************************************************************************)
(* A model of the Unity SerializedFile reader (rust/src/unity/reader.rs)   *)
(* and of the Material / Shader object decoders                            *)
(* (rust/src/unity/material.rs).                                           *)
(*                                                                         *)
(* Representation of values                                                *)
(*   byte            a number in 0..255                                    *)
(*   u8, u16, i16, i32   the number itself                                 *)
(*   u32, i64, u64, f32, usize   a "word": the value's bytes, most         *)
(*                   significant first (4 or 8 of them).  The model        *)
(*                   checker's integers are 32 bit wide, so a word keeps   *)
(*                   the full width of the value; f32 is its bit pattern.  *)
(*   String          the sequence of its characters' code points           *)
(*   Vec<T>          a sequence; Option<T>  <<>> for None, <<x>> for Some  *)
(*   struct          a record                                              *)
(*   Result<T>       [err, rd, val]: the error (NoErr on success), the     *)
(*                   reader as the call leaves it, and the value           *)
(***************************************************************************)
EXTENDS Integers, Sequences, FiniteSets, TLC

VARIABLES
    reader,   \* AssetReader { data: Cursor<Vec<u8>>, endianness }: [data, pos, endianness]
    build,    \* what the build fixes: [usize_bits, eof, overflow_checks] (pointer width,
              \* Cursor's position after a short read, whether `+` panics on overflow)
    fixture,  \* the description the input buffer was synthesized from (input, never read by the code)
    asset,    \* the AssetInfo the caller holds: <<>> or <<info>>
    ret,      \* the last call: [op, arg, start, ok, err, val], start being the reader's
              \* position and endianness when it was made
    runs,     \* the outcomes of the last decodes of one object, each made right after
              \* seek_to_object: at most two, the newest last (caller's log)
    calls     \* how many calls the caller has made on the reader

vars == <<reader, build, fixture, asset, ret, runs, calls>>

(***************************************************************************)
(* Words and numbers                                                       *)
(***************************************************************************)
Reverse(s) == [i \in 1..Len(s) |-> s[Len(s) + 1 - i]]

Zeros(n) == [i \in 1..n |-> 0]

Ones(n) == [i \in 1..n |-> 255]

\* The low n bytes of word w (a narrowing `as` cast).
\* The high n bytes of word w (what a narrowing cast does not keep).
HighBytes(w, n) == SubSeq(w, 1, n)

LowBytes(w, n) == SubSeq(w, Len(w) - n + 1, Len(w))

\* Zero extension of word w to n bytes (an unsigned widening `as` cast).
ZeroExtend(w, n) == Zeros(n - Len(w)) \o w

\* A widening that takes the word for unsigned.
WidenUnsigned(w, n) == ZeroExtend(w, n)

\* Sign extension of word w to n bytes (a signed widening cast, `.into()`).
SignExtend(w, n) == (IF w[1] >= 128 THEN Ones(n - Len(w)) ELSE Zeros(n - Len(w))) \o w

\* The unsigned number a word of at most 31 significant bits stands for.
NatOfBytes(w) ==
    LET n == Len(w)
    IN  (IF n >= 1 THEN w[n] ELSE 0) + (IF n >= 2 THEN w[n - 1] * 256 ELSE 0)
        + (IF n >= 3 THEN w[n - 2] * 65536 ELSE 0)
        + (IF n >= 4 THEN w[n - 3] * 16777216 ELSE 0)

\* Whether the unsigned value of word w is below 2^31 (and so a number here).
FitsNat(w) ==
    /\ \A i \in 1..(Len(w) - 4) : w[i] = 0
    /\ (Len(w) >= 4 => w[Len(w) - 3] < 128)

\* The two's complement number of a word of 1, 2 or 4 bytes.
IntOfBytes(w) ==
    IF w[1] >= 128
    THEN (w[1] - 256) * (IF Len(w) = 4 THEN 16777216 ELSE IF Len(w) = 2 THEN 256 ELSE 1)
         + NatOfBytes(SubSeq(w, 2, Len(w)))
    ELSE NatOfBytes(w)

\* The n-byte word of a number in 0..2^31-1.
BytesOfNat(x, n) ==
    [i \in 1..n |-> CASE i = n -> x % 256
                     [] i = n - 1 -> (x \div 256) % 256
                     [] i = n - 2 -> (x \div 65536) % 256
                     [] i = n - 3 -> (x \div 16777216) % 256
                     [] OTHER -> 0]

\* The n-byte two's complement word of a number in -2^31..2^31-1.
BytesOfInt(x, n) ==
    IF x >= 0 THEN BytesOfNat(x, n)
    ELSE LET m == -(x + 1)   \* bitwise complement of x, in 0..2^31-1
         IN  [i \in 1..n |-> 255 - BytesOfNat(m, n)[i]]

RECURSIVE AddCarry(_, _, _)
\* a + b + c over words of equal length, most significant byte first; the
\* result is <<carry out>> \o sum, so Tail drops the carry.
AddCarry(a, b, c) ==
    IF Len(a) = 0 THEN <<c>>
    ELSE LET n == Len(a)
             s == a[n] + b[n] + c
             hi == AddCarry(SubSeq(a, 1, n - 1), SubSeq(b, 1, n - 1), s \div 256)
         IN  hi \o <<s % 256>>

\* Wrapping addition of two words of equal length (i64 `+=` in a release build).
WrappingAdd(a, b) == Tail(AddCarry(a, b, 0))

\* Whether a signed addition leaves the range of its width.
AddOverflows(a, b) ==
    LET s == WrappingAdd(a, b)
    IN  (a[1] >= 128) = (b[1] >= 128) /\ (s[1] >= 128) # (a[1] >= 128)

(***************************************************************************)
(* Result<T, AssetReaderError>                                             *)
(***************************************************************************)
\* The kinds of AssetReaderError (reader.rs:16-24) that the code constructs.
ErrorKinds == {"MissingType", "IO", "UnsupportedFileVersion", "InvalidVersion"}

\* The panics of the code: not values of AssetReaderError.
PanicKinds == {"panic: unrecognized pass type", "panic: unrecognized fog mode",
               "panic: unrecognized GPU program type", "panic: capacity overflow",
               "panic: unwrap on TryFromIntError", "panic: attempt to add with overflow",
               "panic: index out of bounds"}

NoErr == [kind |-> "Ok", arg |-> <<>>]

\* ok is `is_ok()`: whether err is NoErr.
Ok(rd, v) == [ok |-> TRUE, err |-> NoErr, rd |-> rd, val |-> v]

\* Err(e) of AssetReaderError; arg carries the error's payload as a sequence.
Fail(kind, arg, rd) ==
    [ok |-> FALSE, err |-> [kind |-> kind, arg |-> arg], rd |-> rd, val |-> <<>>]

\* The `?` operator: the failure of r handed on unchanged.
Propagate(r) == [ok |-> FALSE, err |-> r.err, rd |-> r.rd, val |-> <<>>]

IsOk(r) == r.ok

\* panic! / unwrap on Err: the call does not return a Result; the thread unwinds
\* (a trap on wasm).  msg names the panic, arg is the offending value.
Panic(msg, arg, rd) == Fail(msg, arg, rd)

IsPanic(r) == r.err.kind \in PanicKinds

(***************************************************************************)
(* The byte reader (reader.rs:128-251)                                     *)
(***************************************************************************)
\* A position no buffer reaches; it stands for every u64 position from it on
\* but the last three, which are FarPos + 5 .. FarPos + 7 (LastPos is 2^64 - 1).
FarPos == 1024 * 1024 * 1024

LastPos == FarPos + 7

\* u64 -> position of the model.
PosOf(w) ==
    IF FitsNat(w) /\ NatOfBytes(w) < FarPos THEN NatOfBytes(w)
    ELSE IF SubSeq(w, 1, 7) = Ones(7) /\ w[8] >= 253 THEN LastPos - (255 - w[8])
    ELSE FarPos

\* `x as usize` of a 64 bit word: truncation on a 32 bit target.
AsUsize(w) == IF build.usize_bits = 32 THEN ZeroExtend(LowBytes(w, 4), 8) ELSE w

\* Vec::with_capacity(n) of elements of `size` bytes panics with "capacity
\* overflow" when n * size exceeds isize::MAX; n is a usize word.
CapacityOverflow(n, size) ==
    /\ build.usize_bits = 32
    /\ (~FitsNat(n) \/ NatOfBytes(n) > 2147483647 \div size)

\* A call of one of the reader's functions by its name, defined once they
\* all are.
RECURSIVE Call(_, _, _)

\* Cursor::read_exact: n bytes from the position, or UnexpectedEof.  Where a
\* short read leaves the cursor depends on the standard library: where it was
\* ("keep") or at the end of the buffer ("end").
read_exact(rd, n) ==
    IF n = 0 \/ n <= Len(rd.data) - rd.pos
    THEN Ok([rd EXCEPT !.pos = @ + n], SubSeq(rd.data, rd.pos + 1, rd.pos + n))
    ELSE Fail("IO", <<>>, IF build.eof = "end" THEN [rd EXCEPT !.pos = Len(rd.data)] ELSE rd)

\* byteorder's read_uN::<BigEndian|LittleEndian>: the bytes as a word.
ReadWord(rd, n) ==
    LET r == read_exact(rd, n)
    IN  IF ~IsOk(r) THEN r
        ELSE Ok(r.rd, IF rd.endianness = "Big" THEN r.val ELSE Reverse(r.val))

\* A seek that fails past the end of the buffer.
seek_within(rd, n) ==
    IF n <= Len(rd.data) THEN Ok([rd EXCEPT !.pos = n], n) ELSE Fail("IO", <<>>, rd)

\* Cursor::seek(SeekFrom::Start(n)): the position is set, wherever n is.
seek_start(rd, n) == Ok([rd EXCEPT !.pos = n], n)

seek_current(rd, n) == Ok([rd EXCEPT !.pos = @ + n], rd.pos + n)

\* An align that leaves the reader where it is.
align_nowhere(rd) == Ok(rd, rd.pos)

\* reader.rs:129-133
\* `idx + 3` is a u64 sum: past LastPos it panics where overflow is checked
\* and wraps to 0..2 where it is not.
align(rd) ==
    IF rd.pos + 3 <= LastPos THEN seek_start(rd, ((rd.pos + 3) \div 4) * 4)
    ELSE IF build.overflow_checks THEN Panic("panic: attempt to add with overflow", rd.pos, rd)
    ELSE seek_start(rd, 0)

current_pos(rd) == Ok(rd, rd.pos)

\* A seek to the object counted from where the reader is.
seek_to_object_from_current(rd, obj) == seek_current(rd, PosOf(obj.byte_start))

seek_to_object(rd, obj) == seek_start(rd, PosOf(obj.byte_start))

set_endianness(rd, endianness) == [rd EXCEPT !.endianness = endianness]

read_u8(rd) ==
    LET r == read_exact(rd, 1) IN IF IsOk(r) THEN Ok(r.rd, r.val[1]) ELSE r

read_u16(rd) ==
    LET r == Call("ReadWord", rd, <<2>>) IN IF IsOk(r) THEN Ok(r.rd, NatOfBytes(r.val)) ELSE r

read_i16(rd) ==
    LET r == Call("ReadWord", rd, <<2>>) IN IF IsOk(r) THEN Ok(r.rd, IntOfBytes(r.val)) ELSE r

read_i64(rd) == Call("ReadWord", rd, <<8>>)

read_i32(rd) ==
    LET r == Call("ReadWord", rd, <<4>>) IN IF IsOk(r) THEN Ok(r.rd, IntOfBytes(r.val)) ELSE r

\* A read_u32 that is big endian whatever the reader is set to.
read_u32_big(rd) == read_exact(rd, 4)

read_u32(rd) == Call("ReadWord", rd, <<4>>)

read_u64(rd) == Call("ReadWord", rd, <<8>>)

\* A read_f32 of the width of an f64.
read_f32_wide(rd) == Call("ReadWord", rd, <<8>>)

read_f32(rd) == Call("ReadWord", rd, <<4>>)

\* The number of turns of a `for _ in 0..count` loop over a usize word: a count
\* of 2^31 and more stands for more turns than the buffer has bytes.
Turns(rd, count) == IF FitsNat(count) THEN NatOfBytes(count) ELSE Len(rd.data) + 1

RECURSIVE ReadU32Loop(_, _, _)
ReadU32Loop(rd, n, xs) ==
    IF n <= 0 THEN Ok(rd, xs)
    ELSE LET r == Call("read_u32", rd, <<>>)
         IN  IF IsOk(r) THEN ReadU32Loop(r.rd, n - 1, Append(xs, r.val)) ELSE r

read_u32_array(rd) ==
    LET c == Call("read_u32", rd, <<>>)
    IN  IF ~IsOk(c) THEN c
        ELSE IF CapacityOverflow(ZeroExtend(c.val, 8), 4)
        THEN Panic("panic: capacity overflow", c.val, c.rd)
        ELSE ReadU32Loop(c.rd, Turns(c.rd, ZeroExtend(c.val, 8)), <<>>)

\* read_bytes(n), n a usize word.
read_bytes(rd, n) ==
    IF CapacityOverflow(n, 1) THEN Panic("panic: capacity overflow", n, rd)
    ELSE IF ~FitsNat(n) THEN read_exact(rd, Len(rd.data) + 1)
    ELSE read_exact(rd, NatOfBytes(n))

read_byte_array(rd) ==
    LET c == Call("read_u32", rd, <<>>)
    IN  IF IsOk(c) THEN Call("read_bytes", c.rd, <<ZeroExtend(c.val, 8)>>) ELSE c

\* `byte as char` for every byte, then align.
read_char_array(rd) ==
    LET b == Call("read_byte_array", rd, <<>>)
    IN  IF ~IsOk(b) THEN b
        ELSE Ok(Call("align", b.rd, <<>>).rd, [i \in 1..Len(b.val) |-> b.val[i]])

RECURSIVE ReadCStrLoop(_, _)
ReadCStrLoop(rd, res) ==
    LET r == Call("read_u8", rd, <<>>)
    IN  IF ~IsOk(r) THEN r
        ELSE IF r.val = 0 THEN Ok(r.rd, res)
        ELSE ReadCStrLoop(r.rd, Append(res, r.val))

read_null_terminated_string(rd) == ReadCStrLoop(rd, <<>>)

read_bool(rd) ==
    LET r == Call("read_u8", rd, <<>>) IN IF IsOk(r) THEN Ok(r.rd, r.val = 1) ELSE r

(***************************************************************************)
(* UnityVersion (version.rs, not among the sources: after the              *)
(* specification's data model).  <<major, minor, build, kind, num>>,       *)
(* ordered lexicographically; kind: alpha 0 < beta 1 < final 2 < patch 3   *)
(* < experimental 4 < china 5.                                             *)
(***************************************************************************)
VersionKindFinal == 2

\* UnityVersion { major, minor, build, ..Default::default() }
UnityVersion(major, minor, bld) == <<major, minor, bld, VersionKindFinal, 0>>

RECURSIVE SeqLess(_, _)
SeqLess(a, b) ==
    IF Len(a) = 0 \/ Len(b) = 0 THEN Len(a) < Len(b)
    ELSE IF a[1] # b[1] THEN a[1] < b[1]
    ELSE SeqLess(Tail(a), Tail(b))

VersionLT(a, b) == SeqLess(a, b)

VersionGE(a, b) == ~SeqLess(a, b)

IsDigit(c) == c \in 48..57

RECURSIVE DigitsEnd(_, _)
\* The index after the run of digits that starts at i.
DigitsEnd(s, i) == IF i <= Len(s) /\ IsDigit(s[i]) THEN DigitsEnd(s, i + 1) ELSE i

RECURSIVE DecimalOf(_)
DecimalOf(ds) ==
    IF Len(ds) = 0 THEN 0
    ELSE DecimalOf(SubSeq(ds, 1, Len(ds) - 1)) * 10 + (ds[Len(ds)] - 48)

\* The letters a b f p x c.
SuffixKind(c) ==
    CASE c = 97 -> 0 [] c = 98 -> 1 [] c = 102 -> 2 [] c = 112 -> 3
      [] c = 120 -> 4 [] c = 99 -> 5 [] OTHER -> -1

\* A decimal field of s from index i, at most `max`: <<value, next index>>, or
\* <<-1, i>> when there is none.
DecimalField(s, i, max) ==
    LET e == DigitsEnd(s, i)
        ds == SubSeq(s, i, e - 1)
    IN  IF e = i \/ e - i > 5 THEN <<-1, i>>
        ELSE IF DecimalOf(ds) > max THEN <<-1, i>>
        ELSE <<DecimalOf(ds), e>>

\* UnityVersion::try_from(&str): <<>> for a VersionParseError, <<v>> otherwise.
ParseUnityVersion(s) ==
    LET ma == DecimalField(s, 1, 65535)
        mi == DecimalField(s, ma[2] + 1, 65535)
        bu == DecimalField(s, mi[2] + 1, 65535)
        k  == IF bu[2] <= Len(s) THEN SuffixKind(s[bu[2]]) ELSE -1
        nu == DecimalField(s, bu[2] + 1, 255)
    IN  IF ma[1] < 0 THEN <<>>
        ELSE IF ma[2] > Len(s) THEN << <<ma[1], 0, 0, VersionKindFinal, 0>> >>
        ELSE IF s[ma[2]] # 46 \/ mi[1] < 0 THEN <<>>
        ELSE IF mi[2] > Len(s) THEN << <<ma[1], mi[1], 0, VersionKindFinal, 0>> >>
        ELSE IF s[mi[2]] # 46 \/ bu[1] < 0 THEN <<>>
        ELSE IF bu[2] > Len(s) THEN << <<ma[1], mi[1], bu[1], VersionKindFinal, 0>> >>
        ELSE IF k < 0 THEN <<>>
        ELSE IF bu[2] = Len(s) THEN << <<ma[1], mi[1], bu[1], k, 0>> >>
        ELSE IF nu[1] < 0 \/ nu[2] <= Len(s) THEN <<>>
        ELSE << <<ma[1], mi[1], bu[1], k, nu[1]>> >>

(***************************************************************************)
(* The container reader (reader.rs:96-126, 253-531)                        *)
(***************************************************************************)
\* The versions the comment above `impl AssetReader` speaks of (reader.rs:86).
VersionsOfTheComment == {20, 21, 22}

SupportedVersions == {17, 18, 19, 20, 21, 22}

\* size_of::<TypeTreeNode>() and size_of::<SerializedType>() on a 32 bit
\* target, which only place the threshold of a capacity overflow.
SizeOfTypeTreeNode == 12 + 12 + 4 + 8 + 4 + 8 + 4 + 8 + 8 + 16 + 4 + 8

SizeOfSerializedType == 4 + 4 + 12 + 12 + 12 + 12 + 12 + 12 + 12

\* read_header's second half with the byte order of the file taken before it.
ReadHeaderV22Declared(rd, version, endianness) ==
    LET m == Call("read_u32", set_endianness(rd, endianness), <<>>)
        f == Call("read_i64", m.rd, <<>>)
        o == Call("read_i64", f.rd, <<>>)
        u == Call("read_i64", o.rd, <<>>)
    IN  IF ~IsOk(m) THEN m
        ELSE IF ~IsOk(f) THEN f
        ELSE IF ~IsOk(o) THEN o
        ELSE IF ~IsOk(u) THEN u
        ELSE Ok(u.rd, [metadata_size |-> AsUsize(ZeroExtend(m.val, 8)),
                       file_size |-> AsUsize(f.val),
                       version |-> version,
                       data_offset |-> AsUsize(o.val),
                       endianness |-> endianness])

\* The second half of read_header, for version >= 22: the header fields again,
\* in full width, read by the reader as it is (set_endianness comes later).
ReadHeaderV22(rd, version, endianness) ==
    LET m == Call("read_u32", rd, <<>>)
        f == Call("read_i64", m.rd, <<>>)
        o == Call("read_i64", f.rd, <<>>)
        u == Call("read_i64", o.rd, <<>>)
    IN  IF ~IsOk(m) THEN m
        ELSE IF ~IsOk(f) THEN f
        ELSE IF ~IsOk(o) THEN o
        ELSE IF ~IsOk(u) THEN u
        ELSE Ok(u.rd, [metadata_size |-> AsUsize(ZeroExtend(m.val, 8)),
                       file_size |-> AsUsize(f.val),
                       version |-> version,
                       data_offset |-> AsUsize(o.val),
                       endianness |-> endianness])

\* reader.rs:253-288.  The `version < 9` seek (261-265) is not reachable past
\* the version check and is left out.
read_header(rd) ==
    LET m == Call("read_u32", rd, <<>>)
        f == Call("read_u32", m.rd, <<>>)
        v == Call("read_u32", f.rd, <<>>)
        version == NatOfBytes(v.val)
        o == Call("read_u32", v.rd, <<>>)
        b == Call("read_u8", o.rd, <<>>)
        endianness == IF b.val = 0 THEN "Little" ELSE "Big"
        skipped == IF version >= 9 THEN seek_current(b.rd, 3).rd ELSE b.rd
    IN  IF ~IsOk(m) THEN m
        ELSE IF ~IsOk(f) THEN f
        ELSE IF ~IsOk(v) THEN v
        ELSE IF ~(FitsNat(v.val) /\ version \in SupportedVersions)
        THEN Fail("UnsupportedFileVersion", v.val, v.rd)
        ELSE IF ~IsOk(o) THEN o
        ELSE IF ~IsOk(b) THEN b
        ELSE IF version >= 22 THEN Call("ReadHeaderV22", skipped, <<version, endianness>>)
        ELSE Ok(skipped, [metadata_size |-> AsUsize(ZeroExtend(m.val, 8)),
                          file_size |-> AsUsize(ZeroExtend(f.val, 8)),
                          version |-> version,
                          data_offset |-> AsUsize(ZeroExtend(o.val, 8)),
                          endianness |-> endianness])

RECURSIVE ReadTypeTreeNodes(_, _, _)
\* The loop of read_type_tree_blob: n nodes, whose values are dropped.
ReadTypeTreeNodes(rd, n, version) ==
    IF n <= 0 THEN Ok(rd, <<>>)
    ELSE LET a == Call("read_i16", rd, <<>>)
             b == Call("read_u8", a.rd, <<>>)
             c == Call("read_u8", b.rd, <<>>)
             d == Call("read_u32", c.rd, <<>>)
             e == Call("read_u32", d.rd, <<>>)
             f == Call("read_i32", e.rd, <<>>)
             g == Call("read_i32", f.rd, <<>>)
             h == Call("read_i32", g.rd, <<>>)
             i == IF version >= 19 THEN Call("read_u64", h.rd, <<>>) ELSE Ok(h.rd, <<>>)
         IN  IF ~IsOk(a) THEN a
             ELSE IF ~IsOk(b) THEN b
             ELSE IF ~IsOk(c) THEN c
             ELSE IF ~IsOk(d) THEN d
             ELSE IF ~IsOk(e) THEN e
             ELSE IF ~IsOk(f) THEN f
             ELSE IF ~IsOk(g) THEN g
             ELSE IF ~IsOk(h) THEN h
             ELSE IF ~IsOk(i) THEN i
             ELSE ReadTypeTreeNodes(i.rd, n - 1, version)

\* reader.rs:420-448
read_type_tree_blob(rd, version) ==
    LET n == Call("read_i32", rd, <<>>)
        sz == Call("read_i32", n.rd, <<>>)
        nodes == ReadTypeTreeNodes(sz.rd, n.val, version)
    IN  IF ~IsOk(n) THEN n
        ELSE IF ~IsOk(sz) THEN sz
        ELSE IF n.val < 0 THEN Panic("panic: unwrap on TryFromIntError", <<n.val>>, sz.rd)
        ELSE IF CapacityOverflow(BytesOfNat(n.val, 8), SizeOfTypeTreeNode)
        THEN Panic("panic: capacity overflow", <<n.val>>, sz.rd)
        ELSE IF ~IsOk(nodes) THEN nodes
        ELSE IF sz.val < 0 THEN Panic("panic: unwrap on TryFromIntError", <<sz.val>>, nodes.rd)
        ELSE Call("read_bytes", nodes.rd, <<BytesOfNat(sz.val, 8)>>)

\* A turn of the loop that consumes nothing and leaves the stack as it is.
TypeTreeTurnInPlace(rd, version, stack) ==
    Ok(rd, [level |-> stack[Len(stack)][1], children_count |-> 0, level_stack |-> stack])

\* One turn of the loop of read_type_tree (reader.rs:381-415) on the stack of
\* <<level, count>>, top last: the level of the node it pushes, the
\* children_count it reads and the stack it leaves.
TypeTreeTurn(rd, version, stack) ==
    LET level_count == stack[Len(stack)]
        popped == SubSeq(stack, 1, Len(stack) - 1)
        stack1 == IF level_count[2] > 1
                  THEN Append(popped, <<level_count[1], level_count[2] - 1>>)
                  ELSE popped
        typ == Call("read_null_terminated_string", rd, <<>>)
        name == Call("read_null_terminated_string", typ.rd, <<>>)
        byte_size == Call("read_i32", name.rd, <<>>)
        variable_count == IF version = 2 THEN Call("read_i32", byte_size.rd, <<>>)
                          ELSE Ok(byte_size.rd, <<>>)
        index == IF version # 3 THEN Call("read_i32", variable_count.rd, <<>>)
                 ELSE Ok(variable_count.rd, <<>>)
        type_flags == Call("read_i32", index.rd, <<>>)
        vers == Call("read_i32", type_flags.rd, <<>>)
        meta_flag == IF version # 3 THEN Call("read_i32", vers.rd, <<>>) ELSE Ok(vers.rd, <<>>)
        children_count == Call("read_i32", meta_flag.rd, <<>>)
        stack2 == IF children_count.val > 0
                  THEN Append(stack1, <<level_count[1], children_count.val>>)
                  ELSE stack1
    IN  IF ~IsOk(typ) THEN typ
        ELSE IF ~IsOk(name) THEN name
        ELSE IF ~IsOk(byte_size) THEN byte_size
        ELSE IF ~IsOk(variable_count) THEN variable_count
        ELSE IF ~IsOk(index) THEN index
        ELSE IF ~IsOk(type_flags) THEN type_flags
        ELSE IF ~IsOk(vers) THEN vers
        ELSE IF ~IsOk(meta_flag) THEN meta_flag
        ELSE IF ~IsOk(children_count) THEN children_count
        ELSE Ok(children_count.rd, [level |-> level_count[1],
                                    children_count |-> children_count.val,
                                    level_stack |-> stack2])

RECURSIVE ReadTypeTreeLoop(_, _, _, _)
\* The loop of read_type_tree (reader.rs:380-416); tree is the sequence of
\* the levels of the nodes pushed.
ReadTypeTreeLoop(rd, version, stack, tree) ==
    IF Len(stack) = 0 THEN Ok(rd, tree)
    ELSE LET turn == Call("TypeTreeTurn", rd, <<version, stack>>)
         IN  IF ~IsOk(turn) THEN turn
             ELSE ReadTypeTreeLoop(turn.rd, version, turn.val.level_stack,
                                   Append(tree, turn.val.level))

\* A reader of type trees that takes every tree for a blob.
read_every_tree_as_blob(rd, version) == read_type_tree_blob(rd, version)

\* reader.rs:377-418
read_type_tree(rd, version) == ReadTypeTreeLoop(rd, version, << <<0, 1>> >>, <<>>)

\* A tail that reads what follows the type tree also when there is none.
ReadTypeTailAlways(rd, is_ref_type, enable_type_tree, version) ==
    LET none == [type_dependencies |-> <<>>, class_name |-> <<>>,
                 name_space |-> <<>>, asm_name |-> <<>>]
        tree == IF ~enable_type_tree THEN Ok(rd, <<>>)
                ELSE IF version >= 12 \/ version = 10
                THEN Call("read_type_tree_blob", rd, <<version>>)
                ELSE Call("read_type_tree", rd, <<version>>)
        c == Call("read_null_terminated_string", tree.rd, <<>>)
        n == Call("read_null_terminated_string", c.rd, <<>>)
        a == Call("read_null_terminated_string", n.rd, <<>>)
        deps == Call("read_u32_array", tree.rd, <<>>)
    IN  IF ~IsOk(tree) THEN Propagate(tree)
        ELSE IF version < 21 THEN Ok(tree.rd, none)
        ELSE IF is_ref_type
        THEN (IF ~IsOk(c) THEN c
              ELSE IF ~IsOk(n) THEN n
              ELSE IF ~IsOk(a) THEN a
              ELSE Ok(a.rd, [none EXCEPT !.class_name = c.val, !.name_space = n.val,
                                         !.asm_name = a.val]))
        ELSE (IF ~IsOk(deps) THEN deps
              ELSE Ok(deps.rd, [none EXCEPT !.type_dependencies = deps.val]))

\* reader.rs:346-361: the type tree and what follows it.
ReadTypeTail(rd, is_ref_type, enable_type_tree, version) ==
    LET none == [type_dependencies |-> <<>>, class_name |-> <<>>,
                 name_space |-> <<>>, asm_name |-> <<>>]
        tree == IF version >= 12 \/ version = 10
                THEN Call("read_type_tree_blob", rd, <<version>>)
                ELSE Call("read_type_tree", rd, <<version>>)
        c == Call("read_null_terminated_string", tree.rd, <<>>)
        n == Call("read_null_terminated_string", c.rd, <<>>)
        a == Call("read_null_terminated_string", n.rd, <<>>)
        deps == Call("read_u32_array", tree.rd, <<>>)
    IN  IF ~enable_type_tree THEN Ok(rd, none)
        ELSE IF ~IsOk(tree) THEN Propagate(tree)
        ELSE IF version < 21 THEN Ok(tree.rd, none)
        ELSE IF is_ref_type
        THEN (IF ~IsOk(c) THEN c
              ELSE IF ~IsOk(n) THEN n
              ELSE IF ~IsOk(a) THEN a
              ELSE Ok(a.rd, [none EXCEPT !.class_name = c.val, !.name_space = n.val,
                                         !.asm_name = a.val]))
        ELSE (IF ~IsOk(deps) THEN deps
              ELSE Ok(deps.rd, [none EXCEPT !.type_dependencies = deps.val]))

\* reader.rs:318-375
read_unity_type(rd, is_ref_type, enable_type_tree, version) ==
    LET class_id == Call("read_i32", rd, <<>>)
        is_stripped_type == IF version >= 16 THEN Call("read_bool", class_id.rd, <<>>)
                            ELSE Ok(class_id.rd, FALSE)
        script_type_index == IF version >= 17 THEN Call("read_i16", is_stripped_type.rd, <<>>)
                             ELSE Ok(is_stripped_type.rd, -1)
        script_id == IF version >= 13
                        /\ ((is_ref_type /\ script_type_index.val >= 0)
                            \/ class_id.val < 0 \/ class_id.val = 114)
                     THEN Call("read_bytes", script_type_index.rd, <<BytesOfNat(16, 8)>>)
                     ELSE Ok(script_type_index.rd, <<>>)
        old_type_hash == IF version >= 13 THEN Call("read_bytes", script_id.rd, <<BytesOfNat(16, 8)>>)
                         ELSE Ok(script_id.rd, <<>>)
        tail == Call("ReadTypeTail", old_type_hash.rd, <<is_ref_type, enable_type_tree, version>>)
    IN  IF ~IsOk(class_id) THEN class_id
        ELSE IF ~IsOk(is_stripped_type) THEN is_stripped_type
        ELSE IF ~IsOk(script_type_index) THEN script_type_index
        ELSE IF ~IsOk(script_id) THEN script_id
        ELSE IF ~IsOk(old_type_hash) THEN old_type_hash
        ELSE IF ~IsOk(tail) THEN tail
        ELSE Ok(tail.rd, [class_id |-> class_id.val,
                          is_stripped_type |-> is_stripped_type.val,
                          script_type_index |-> script_type_index.val,
                          script_id |-> script_id.val,
                          old_type_hash |-> old_type_hash.val,
                          type_dependencies |-> tail.val.type_dependencies,
                          type_tree |-> <<>>,
                          class_name |-> tail.val.class_name,
                          name_space |-> tail.val.name_space,
                          asm_name |-> tail.val.asm_name])

RECURSIVE ReadTypesLoop(_, _, _, _, _, _)
ReadTypesLoop(rd, n, is_ref_type, enable_type_tree, version, types) ==
    IF n <= 0 THEN Ok(rd, types)
    ELSE LET t == Call("read_unity_type", rd, <<is_ref_type, enable_type_tree, version>>)
         IN  IF ~IsOk(t) THEN t
             ELSE ReadTypesLoop(t.rd, n - 1, is_ref_type, enable_type_tree, version,
                                Append(types, t.val))

\* reader.rs:290-316
read_metadata(rd, version) ==
    LET str == IF version >= 7 THEN Call("read_null_terminated_string", rd, <<>>)
               ELSE Ok(rd, <<50, 46, 53, 46, 48, 102, 53>>)
        unity_version == ParseUnityVersion(str.val)
        target_platform == IF version >= 8 THEN Call("read_u32", str.rd, <<>>)
                           ELSE Ok(str.rd, BytesOfNat(3716, 4))
        enable_type_tree == IF version >= 13 THEN Call("read_bool", target_platform.rd, <<>>)
                            ELSE Ok(target_platform.rd, TRUE)
        type_count == Call("read_u32", enable_type_tree.rd, <<>>)
        types == ReadTypesLoop(type_count.rd, Turns(type_count.rd, ZeroExtend(type_count.val, 8)),
                               FALSE, enable_type_tree.val, version, <<>>)
    IN  IF ~IsOk(str) THEN str
        ELSE IF Len(unity_version) = 0 THEN Fail("InvalidVersion", <<>>, str.rd)
        ELSE IF ~IsOk(target_platform) THEN target_platform
        ELSE IF ~IsOk(enable_type_tree) THEN enable_type_tree
        ELSE IF ~IsOk(type_count) THEN type_count
        ELSE IF CapacityOverflow(ZeroExtend(type_count.val, 8), SizeOfSerializedType)
        THEN Panic("panic: capacity overflow", type_count.val, type_count.rd)
        ELSE IF ~IsOk(types) THEN types
        ELSE Ok(types.rd, [unity_version |-> unity_version[1],
                           target_platform |-> target_platform.val,
                           enable_type_tree |-> enable_type_tree.val,
                           types |-> types.val])

\* A lookup that counts the types from one.
get_from_one(types, index) ==
    IF index >= 1 /\ index <= Len(types) THEN <<types[index]>> ELSE <<>>

\* A lookup that wraps the index around the table.
get_wrapping(types, index) ==
    IF Len(types) = 0 THEN <<>> ELSE <<types[(index % Len(types)) + 1]>>

\* metadata.types.get(type_id as usize) (reader.rs:473): None for a negative
\* type_id, which the cast makes larger than any length.
get(types, index) ==
    IF index >= 0 /\ index < Len(types) THEN <<types[index + 1]>> ELSE <<>>

\* reader.rs:463-486.  `byte_start += hdr.data_offset as i64` panics on
\* overflow in a build with overflow checks and wraps in one without.
read_object(rd, hdr, metadata) ==
    LET al == Call("align", rd, <<>>)
        path == Call("read_i64", al.rd, <<>>)
        path_id == IntOfBytes(LowBytes(path.val, 4))
        start == IF hdr.version = 22 THEN Call("read_i64", path.rd, <<>>)
                 ELSE LET u == Call("read_u32", path.rd, <<>>)
                      IN  IF IsOk(u) THEN Ok(u.rd, ZeroExtend(u.val, 8)) ELSE u
        byte_start == WrappingAdd(start.val, hdr.data_offset)
        byte_size == Call("read_u32", start.rd, <<>>)
        type_id == Call("read_i32", byte_size.rd, <<>>)
        found == get(metadata.types, type_id.val)
        serialized_type == found[1]
    IN  IF ~IsOk(path) THEN path
        ELSE IF ~IsOk(start) THEN start
        ELSE IF build.overflow_checks /\ AddOverflows(start.val, hdr.data_offset)
        THEN Panic("panic: attempt to add with overflow", start.val, start.rd)
        ELSE IF ~IsOk(byte_size) THEN byte_size
        ELSE IF ~IsOk(type_id) THEN type_id
        ELSE IF found = <<>> THEN Fail("MissingType", <<type_id.val>>, type_id.rd)
        ELSE Ok(type_id.rd, [path_id |-> path_id,
                             byte_start |-> byte_start,
                             byte_size |-> byte_size.val,
                             type_id |-> type_id.val,
                             serialized_type |-> serialized_type,
                             class_id |-> serialized_type.class_id])

RECURSIVE ReadObjectsLoop(_, _, _, _, _)
ReadObjectsLoop(rd, n, hdr, metadata, objects) ==
    IF n <= 0 THEN Ok(rd, objects)
    ELSE LET o == Call("read_object", rd, <<hdr, metadata>>)
         IN  IF ~IsOk(o) THEN o
             ELSE ReadObjectsLoop(o.rd, n - 1, hdr, metadata, Append(objects, o.val))

\* reader.rs:450-461
read_objects(rd, hdr, metadata) ==
    LET n_objects == Call("read_i32", rd, <<>>)
    IN  IF ~IsOk(n_objects) THEN n_objects
        ELSE ReadObjectsLoop(n_objects.rd, n_objects.val, hdr, metadata, <<>>)

RECURSIVE ReadScriptTypesLoop(_, _, _)
ReadScriptTypesLoop(rd, n, result) ==
    IF n <= 0 THEN Ok(rd, result)
    ELSE LET index == Call("read_i32", rd, <<>>)
             ident == Call("read_i64", Call("align", index.rd, <<>>).rd, <<>>)
         IN  IF ~IsOk(index) THEN index
             ELSE IF ~IsOk(ident) THEN ident
             ELSE ReadScriptTypesLoop(ident.rd, n - 1, Append(result,
                      [local_identifier_in_file |-> IntOfBytes(LowBytes(ident.val, 4)),
                       local_serialized_file_index |-> index.val]))

\* reader.rs:488-501
read_script_types(rd) ==
    LET n_script_types == Call("read_i32", rd, <<>>)
    IN  IF ~IsOk(n_script_types) THEN n_script_types
        ELSE ReadScriptTypesLoop(n_script_types.rd, n_script_types.val, <<>>)

RECURSIVE ReadExternalsLoop(_, _, _)
ReadExternalsLoop(rd, n, result) ==
    IF n <= 0 THEN Ok(rd, result)
    ELSE LET empty == Call("read_null_terminated_string", rd, <<>>)
             guid == Call("read_bytes", empty.rd, <<BytesOfNat(16, 8)>>)
             ext_type == Call("read_i32", guid.rd, <<>>)
             path_name == Call("read_null_terminated_string", ext_type.rd, <<>>)
         IN  IF ~IsOk(empty) THEN empty
             ELSE IF ~IsOk(guid) THEN guid
             ELSE IF ~IsOk(ext_type) THEN ext_type
             ELSE IF ~IsOk(path_name) THEN path_name
             ELSE ReadExternalsLoop(path_name.rd, n - 1, Append(result,
                      [guid |-> guid.val, ext_type |-> ext_type.val,
                       path_name |-> path_name.val]))

\* reader.rs:503-518
read_externals(rd) ==
    LET n_externals == Call("read_i32", rd, <<>>)
    IN  IF ~IsOk(n_externals) THEN n_externals
        ELSE ReadExternalsLoop(n_externals.rd, n_externals.val, <<>>)

\* A read_ref_types that reads nothing.
read_no_ref_types(rd, metadata, version) == Ok(rd, <<>>)

\* reader.rs:520-531
read_ref_types(rd, metadata, version) ==
    LET n_ref_types == Call("read_i32", rd, <<>>)
    IN  IF ~IsOk(n_ref_types) THEN n_ref_types
        ELSE ReadTypesLoop(n_ref_types.rd, n_ref_types.val, TRUE,
                           metadata.enable_type_tree, version, <<>>)

\* reader.rs:96-126
read_asset_info(rd) ==
    LET header == Call("read_header", rd, <<>>)
        rd1 == set_endianness(header.rd, header.val.endianness)
        version == header.val.version
        metadata == Call("read_metadata", rd1, <<version>>)
        objects == Call("read_objects", metadata.rd, <<header.val, metadata.val>>)
        script_types == IF version >= 11 THEN Call("read_script_types", objects.rd, <<>>)
                        ELSE Ok(objects.rd, <<>>)
        externals == Call("read_externals", script_types.rd, <<>>)
        ref_types == IF version >= 20
                     THEN Call("read_ref_types", externals.rd, <<metadata.val, version>>)
                     ELSE Ok(externals.rd, <<>>)
        user_information == IF version >= 5 THEN Call("read_null_terminated_string", ref_types.rd, <<>>)
                            ELSE Ok(ref_types.rd, <<>>)
    IN  IF ~IsOk(header) THEN header
        ELSE IF ~IsOk(metadata) THEN metadata
        ELSE IF ~IsOk(objects) THEN objects
        ELSE IF ~IsOk(script_types) THEN script_types
        ELSE IF ~IsOk(externals) THEN externals
        ELSE IF ~IsOk(ref_types) THEN ref_types
        ELSE IF ~IsOk(user_information) THEN user_information
        ELSE Ok(user_information.rd, [header |-> header.val,
                                      metadata |-> metadata.val,
                                      objects |-> objects.val,
                                      script_types |-> script_types.val,
                                      externals |-> externals.val,
                                      ref_types |-> ref_types.val,
                                      user_information |-> user_information.val])

(***************************************************************************)
(* The decode framework (reader.rs:46-64) and what material.rs uses of     *)
(* asset.rs and mesh.rs.  A decoder is described by its type: the reads    *)
(* it makes, in order.  Deserialize below runs a type over a reader.       *)
(*   P(k)          a primitive read of the byte reader                     *)
(*   Struct(fs)    the fields fs in order; F keeps the value under its     *)
(*                 name, D reads and drops it (a `_name` of the source)    *)
(*   Array(t)      Deserialize::deserialize_array of t                     *)
(*   Map(k, v)     Map<K, V>::deserialize                                  *)
(*   Repeat(n, t)  [t; n]                                                  *)
(*   Some(t), None an Option field that is read, or not read               *)
(***************************************************************************)
P(k) == [k |-> k]

F(name, ty) == [name |-> name, ty |-> ty, keep |-> TRUE]

D(name, ty) == [name |-> name, ty |-> ty, keep |-> FALSE]

Struct(fields) == [k |-> "struct", fields |-> fields]

Array(elem) == [k |-> "array", elem |-> elem]

Map(key, value) == [k |-> "map", key |-> key, value |-> value]

Repeat(n, elem) == [k |-> "repeat", n |-> n, elem |-> elem]

Some(ty) == [k |-> "some", of |-> ty]

None == [k |-> "none"]

\* material.rs:221-226
UnityShaderPassType == <<"Normal", "Use", "Grab">>

\* material.rs:312-320
UnityShaderFogMode == <<"Unknown", "Disabled", "Linear", "Exp", "Exp2">>

\* material.rs:492-527
UnityShaderGpuProgramType ==
    <<"Unknown", "GLLegacy", "GLES31AEP", "GLES31", "GLES3", "GLES", "GLCore32",
      "GLCore41", "GLCore43", "DX9VertexSM20", "DX9VertexSM30", "DX9PixelSM20",
      "DX9PixelSM30", "DX10Level9Vertex", "DX10Level9Pixel", "DX11VertexSM40",
      "DX11VertexSM50", "DX11PixelSM40", "DX11PixelSM50", "DX11GeometrySM40",
      "DX11GeometrySM50", "DX11HullSM50", "DX11DomainSM50", "MetalVS", "MetalFS",
      "SPIRV", "ConsoleVS", "ConsoleFS", "ConsoleHS", "ConsoleDS", "ConsoleGS",
      "RayTracing">>

\* What a match arm that panics yields in place of a variant.
Panics == "panic!"

\* material.rs:1012-1019
get_pass_type(value) ==
    CASE value = 0 -> "Normal"
      [] value = 1 -> "Use"
      [] value = 2 -> "Grab"
      [] OTHER -> Panics

\* A fog mode mapping that counts the variants from zero.
get_fog_mode_from_zero(value) ==
    CASE value = 0 -> "Unknown"
      [] value = 1 -> "Disabled"
      [] value = 2 -> "Linear"
      [] value = 3 -> "Exp"
      [] value = 4 -> "Exp2"
      [] OTHER -> Panics

\* material.rs:355-364
get_fog_mode(value) ==
    CASE value = -1 -> "Unknown"
      [] value = 0 -> "Disabled"
      [] value = 1 -> "Linear"
      [] value = 2 -> "Exp"
      [] value = 3 -> "Exp2"
      [] OTHER -> Panics

\* material.rs:822-858
get_gpu_program_type(value) ==
    CASE value = 0 -> "Unknown"
      [] value = 1 -> "GLLegacy"
      [] value = 2 -> "GLES31AEP"
      [] value = 3 -> "GLES31"
      [] value = 4 -> "GLES3"
      [] value = 5 -> "GLES"
      [] value = 6 -> "GLCore32"
      [] value = 7 -> "GLCore41"
      [] value = 8 -> "GLCore43"
      [] value = 9 -> "DX9VertexSM20"
      [] value = 10 -> "DX9VertexSM30"
      [] value = 11 -> "DX9PixelSM20"
      [] value = 12 -> "DX9PixelSM30"
      [] value = 13 -> "DX10Level9Vertex"
      [] value = 14 -> "DX10Level9Pixel"
      [] value = 15 -> "DX11VertexSM40"
      [] value = 16 -> "DX11VertexSM50"
      [] value = 17 -> "DX11PixelSM40"
      [] value = 18 -> "DX11PixelSM50"
      [] value = 19 -> "DX11GeometrySM40"
      [] value = 20 -> "DX11GeometrySM50"
      [] value = 21 -> "DX11HullSM50"
      [] value = 22 -> "DX11DomainSM50"
      [] value = 23 -> "MetalVS"
      [] value = 24 -> "MetalFS"
      [] value = 25 -> "SPIRV"
      [] value = 26 -> "ConsoleVS"
      [] value = 27 -> "ConsoleFS"
      [] value = 28 -> "ConsoleHS"
      [] value = 29 -> "ConsoleDS"
      [] value = 30 -> "ConsoleGS"
      [] value = 31 -> "RayTracing"
      [] OTHER -> Panics

RECURSIVE ReadU16Loop(_, _, _)
ReadU16Loop(rd, n, xs) ==
    IF n <= 0 THEN Ok(rd, xs)
    ELSE LET r == Call("read_u16", rd, <<>>)
         IN  IF IsOk(r) THEN ReadU16Loop(r.rd, n - 1, Append(xs, r.val)) ELSE r

\* AssetReader::read_u16_array, which material.rs calls and reader.rs does not
\* hold: a u32 count, then that many u16, no alignment (as read_u32_array).
read_u16_array(rd) ==
    LET c == Call("read_u32", rd, <<>>)
    IN  IF ~IsOk(c) THEN c
        ELSE IF CapacityOverflow(ZeroExtend(c.val, 8), 2)
        THEN Panic("panic: capacity overflow", c.val, c.rd)
        ELSE ReadU16Loop(c.rd, Turns(c.rd, ZeroExtend(c.val, 8)), <<>>)

\* A read followed by an enum mapping that may panic.
ReadEnum(r, variant, msg) ==
    IF ~IsOk(r) THEN r
    ELSE IF variant = Panics THEN Panic(msg, <<r.val>>, r.rd)
    ELSE Ok(r.rd, variant)

\* The reads of the byte reader a decoder makes directly.
ReadPrimitive(rd, k) ==
    CASE k = "u8" -> Call("read_u8", rd, <<>>)
      [] k = "i32" -> Call("read_i32", rd, <<>>)
      [] k = "u32" -> Call("read_u32", rd, <<>>)
      [] k = "i64" -> Call("read_i64", rd, <<>>)
      [] k = "f32" -> Call("read_f32", rd, <<>>)
      [] k = "bool" -> Call("read_bool", rd, <<>>)
      [] k = "char_array" -> Call("read_char_array", rd, <<>>)
      [] k = "byte_array" -> Call("read_byte_array", rd, <<>>)
      [] k = "u16_array" -> Call("read_u16_array", rd, <<>>)
      [] k = "align" -> Call("align", rd, <<>>)
      [] k = "i32_into_i64" ->
            LET r == Call("read_u32", rd, <<>>)
            IN  IF IsOk(r) THEN Ok(r.rd, SignExtend(r.val, 8)) ELSE r
      [] k = "pass_type" ->
            LET r == Call("read_i32", rd, <<>>)
            IN  ReadEnum(r, get_pass_type(r.val), "panic: unrecognized pass type")
      [] k = "fog_mode" ->
            LET r == Call("read_i32", rd, <<>>)
            IN  ReadEnum(r, get_fog_mode(r.val), "panic: unrecognized fog mode")
      [] k = "gpu_program_type" ->
            LET r == Call("read_u8", rd, <<>>)
            IN  ReadEnum(r, get_gpu_program_type(r.val), "panic: unrecognized GPU program type")

\* The struct a run of fields builds: the kept fields under their names.
RecordOf(fields, vals) ==
    LET kept == {i \in 1..Len(fields) : fields[i].keep}
    IN  [name \in {fields[i].name : i \in kept} |->
            vals[CHOOSE i \in kept : fields[i].name = name]]


(***************************************************************************)
(* A run of reads, each with `?`, is written as a chain of definitions,    *)
(* each reading from where the one before it ended, under a CASE that      *)
(* takes them in order and yields the first failure.  TLC evaluates the    *)
(* guards of a CASE one after the other at the same depth, which keeps the *)
(* evaluation of long runs shallow.                                        *)
(***************************************************************************)

\* The type of the i-th field of a struct; past the last one, nothing to read.
TypeAt(fields, i) == IF i <= Len(fields) THEN fields[i].ty ELSE None

\* <T as Deserialize>::deserialize(reader, asset) for the type ty.  A struct
\* reads its fields in order.
Deserialize(rd, ty) ==
    CASE rd.pos >= 0 /\ ty.k = "struct" ->
            LET fs == ty.fields
                f01 == Call("Deserialize", rd, <<TypeAt(fs, 1)>>)
                f02 == Call("Deserialize", f01.rd, <<TypeAt(fs, 2)>>)
                f03 == Call("Deserialize", f02.rd, <<TypeAt(fs, 3)>>)
                f04 == Call("Deserialize", f03.rd, <<TypeAt(fs, 4)>>)
                f05 == Call("Deserialize", f04.rd, <<TypeAt(fs, 5)>>)
                f06 == Call("Deserialize", f05.rd, <<TypeAt(fs, 6)>>)
                f07 == Call("Deserialize", f06.rd, <<TypeAt(fs, 7)>>)
                f08 == Call("Deserialize", f07.rd, <<TypeAt(fs, 8)>>)
                f09 == Call("Deserialize", f08.rd, <<TypeAt(fs, 9)>>)
                f10 == Call("Deserialize", f09.rd, <<TypeAt(fs, 10)>>)
                f11 == Call("Deserialize", f10.rd, <<TypeAt(fs, 11)>>)
                f12 == Call("Deserialize", f11.rd, <<TypeAt(fs, 12)>>)
                f13 == Call("Deserialize", f12.rd, <<TypeAt(fs, 13)>>)
                f14 == Call("Deserialize", f13.rd, <<TypeAt(fs, 14)>>)
                f15 == Call("Deserialize", f14.rd, <<TypeAt(fs, 15)>>)
                f16 == Call("Deserialize", f15.rd, <<TypeAt(fs, 16)>>)
                f17 == Call("Deserialize", f16.rd, <<TypeAt(fs, 17)>>)
                f18 == Call("Deserialize", f17.rd, <<TypeAt(fs, 18)>>)
                f19 == Call("Deserialize", f18.rd, <<TypeAt(fs, 19)>>)
                f20 == Call("Deserialize", f19.rd, <<TypeAt(fs, 20)>>)
                f21 == Call("Deserialize", f20.rd, <<TypeAt(fs, 21)>>)
                f22 == Call("Deserialize", f21.rd, <<TypeAt(fs, 22)>>)
                f23 == Call("Deserialize", f22.rd, <<TypeAt(fs, 23)>>)
                f24 == Call("Deserialize", f23.rd, <<TypeAt(fs, 24)>>)
                f25 == Call("Deserialize", f24.rd, <<TypeAt(fs, 25)>>)
                f26 == Call("Deserialize", f25.rd, <<TypeAt(fs, 26)>>)
                f27 == Call("Deserialize", f26.rd, <<TypeAt(fs, 27)>>)
                f28 == Call("Deserialize", f27.rd, <<TypeAt(fs, 28)>>)
                f29 == Call("Deserialize", f28.rd, <<TypeAt(fs, 29)>>)
                f30 == Call("Deserialize", f29.rd, <<TypeAt(fs, 30)>>)
                f31 == Call("Deserialize", f30.rd, <<TypeAt(fs, 31)>>)
                f32 == Call("Deserialize", f31.rd, <<TypeAt(fs, 32)>>)
            IN  CASE ~f01.ok -> f01
                  [] ~f02.ok -> f02
                  [] ~f03.ok -> f03
                  [] ~f04.ok -> f04
                  [] ~f05.ok -> f05
                  [] ~f06.ok -> f06
                  [] ~f07.ok -> f07
                  [] ~f08.ok -> f08
                  [] ~f09.ok -> f09
                  [] ~f10.ok -> f10
                  [] ~f11.ok -> f11
                  [] ~f12.ok -> f12
                  [] ~f13.ok -> f13
                  [] ~f14.ok -> f14
                  [] ~f15.ok -> f15
                  [] ~f16.ok -> f16
                  [] ~f17.ok -> f17
                  [] ~f18.ok -> f18
                  [] ~f19.ok -> f19
                  [] ~f20.ok -> f20
                  [] ~f21.ok -> f21
                  [] ~f22.ok -> f22
                  [] ~f23.ok -> f23
                  [] ~f24.ok -> f24
                  [] ~f25.ok -> f25
                  [] ~f26.ok -> f26
                  [] ~f27.ok -> f27
                  [] ~f28.ok -> f28
                  [] ~f29.ok -> f29
                  [] ~f30.ok -> f30
                  [] ~f31.ok -> f31
                  [] ~f32.ok -> f32
                  [] OTHER -> Ok(f32.rd, RecordOf(fs, <<
                         f01.val, f02.val, f03.val, f04.val, f05.val, f06.val, f07.val, f08.val,
                         f09.val, f10.val, f11.val, f12.val, f13.val, f14.val, f15.val, f16.val,
                         f17.val, f18.val, f19.val, f20.val, f21.val, f22.val, f23.val, f24.val,
                         f25.val, f26.val, f27.val, f28.val, f29.val, f30.val, f31.val, f32.val>>))
      [] ty.k = "array" -> Call("deserialize_array", rd, <<ty.elem>>)
      [] ty.k = "repeat" -> Call("DeserializeN", rd, <<ty.elem, ty.n>>)
      [] ty.k = "map" ->
            LET n == Call("read_i32", rd, <<>>)
                r == Call("DeserializePairs", n.rd, <<ty.key, ty.value, n.val>>)
            IN  IF n.ok THEN r ELSE n
      [] ty.k = "some" ->
            LET r == Call("Deserialize", rd, <<ty.of>>)
            IN  IF r.ok THEN Ok(r.rd, <<r.val>>) ELSE r
      [] ty.k = "none" -> Ok(rd, <<>>)
      [] OTHER -> ReadPrimitive(rd, ty.k)

\* n turns of `result.push(T::deserialize(reader, asset)?)`: the first four,
\* then the others a quarter at a time.
DeserializeN(rd, elem, n) ==
    LET f1 == IF n >= 1 /\ rd.pos >= 0 THEN Call("Deserialize", rd, <<elem>>) ELSE Ok(rd, <<>>)
        f2 == IF n >= 2 THEN Call("Deserialize", f1.rd, <<elem>>) ELSE Ok(f1.rd, <<>>)
        f3 == IF n >= 3 THEN Call("Deserialize", f2.rd, <<elem>>) ELSE Ok(f2.rd, <<>>)
        f4 == IF n >= 4 THEN Call("Deserialize", f3.rd, <<elem>>) ELSE Ok(f3.rd, <<>>)
        q == (n - 1) \div 4
        r1 == Call("DeserializeN", f4.rd, <<elem, q>>)
        r2 == Call("DeserializeN", r1.rd, <<elem, q>>)
        r3 == Call("DeserializeN", r2.rd, <<elem, q>>)
        r4 == Call("DeserializeN", r3.rd, <<elem, n - 4 - 3 * q>>)
    IN  CASE ~f1.ok -> f1
          [] ~f2.ok -> f2
          [] ~f3.ok -> f3
          [] ~f4.ok -> f4
          [] n <= 4 -> Ok(f4.rd, SubSeq(<<f1.val, f2.val, f3.val, f4.val>>, 1, n))
          [] ~r1.ok -> r1
          [] ~r2.ok -> r2
          [] ~r3.ok -> r3
          [] ~r4.ok -> r4
          [] OTHER -> Ok(r4.rd, <<f1.val, f2.val, f3.val, f4.val>>
                                \o r1.val \o r2.val \o r3.val \o r4.val)

\* Map<K, V>::deserialize (asset.rs, not among the sources; after the
\* specification, 4.3): n pairs (K, V) in order, kept as keys and vals.
DeserializePairs(rd, key, value, n) ==
    LET k1 == IF n >= 1 /\ rd.pos >= 0 THEN Call("Deserialize", rd, <<key>>) ELSE Ok(rd, <<>>)
        v1 == IF n >= 1 THEN Call("Deserialize", k1.rd, <<value>>) ELSE Ok(k1.rd, <<>>)
        k2 == IF n >= 2 THEN Call("Deserialize", v1.rd, <<key>>) ELSE Ok(v1.rd, <<>>)
        v2 == IF n >= 2 THEN Call("Deserialize", k2.rd, <<value>>) ELSE Ok(k2.rd, <<>>)
        q == (n - 1) \div 2
        r1 == Call("DeserializePairs", v2.rd, <<key, value, q>>)
        r2 == Call("DeserializePairs", r1.rd, <<key, value, n - 2 - q>>)
    IN  CASE ~k1.ok -> k1
          [] ~v1.ok -> v1
          [] ~k2.ok -> k2
          [] ~v2.ok -> v2
          [] n <= 2 -> Ok(v2.rd, [keys |-> SubSeq(<<k1.val, k2.val>>, 1, n),
                                  vals |-> SubSeq(<<v1.val, v2.val>>, 1, n)])
          [] ~r1.ok -> r1
          [] ~r2.ok -> r2
          [] OTHER -> Ok(r2.rd, [keys |-> <<k1.val, k2.val>> \o r1.val.keys \o r2.val.keys,
                                 vals |-> <<v1.val, v2.val>> \o r1.val.vals \o r2.val.vals])

\* reader.rs:51-63: the count, `for _ in 0..n { result.push(...?) }` (its
\* first four turns written out), align.
deserialize_array(rd, elem) ==
    LET n == Call("read_i32", rd, <<>>)
        f1 == IF n.val >= 1 THEN Call("Deserialize", n.rd, <<elem>>) ELSE Ok(n.rd, <<>>)
        f2 == IF n.val >= 2 THEN Call("Deserialize", f1.rd, <<elem>>) ELSE Ok(f1.rd, <<>>)
        f3 == IF n.val >= 3 THEN Call("Deserialize", f2.rd, <<elem>>) ELSE Ok(f2.rd, <<>>)
        f4 == IF n.val >= 4 THEN Call("Deserialize", f3.rd, <<elem>>) ELSE Ok(f3.rd, <<>>)
        more == Call("DeserializeN", f4.rd, <<elem, IF n.val > 4 THEN n.val - 4 ELSE 0>>)
        result == SubSeq(<<f1.val, f2.val, f3.val, f4.val>>, 1, IF n.val > 4 THEN 4 ELSE n.val)
                  \o more.val
    IN  CASE ~n.ok -> n
          [] ~f1.ok -> f1
          [] ~f2.ok -> f2
          [] ~f3.ok -> f3
          [] ~f4.ok -> f4
          [] ~more.ok -> more
          [] OTHER -> Ok(Call("align", more.rd, <<>>).rd, result)

(***************************************************************************)
(* The decoders of material.rs, each as the type it reads.  v is           *)
(* asset.metadata.unity_version.                                           *)
(***************************************************************************)
\* String, PPtr (asset.rs) and Vec2f (mesh.rs) are not among the sources;
\* after the specification's data model.
String == P("char_array")

PPtr == Struct(<<F("file_id", P("i32")), F("path_id", P("i64"))>>)

Vec2f == Struct(<<F("x", P("f32")), F("y", P("f32"))>>)

\* material.rs:16
StringTagMap == Map(String, String)

\* material.rs:66-75
ColorRGBAf ==
    Struct(<<F("r", P("f32")), F("g", P("f32")), F("b", P("f32")), F("a", P("f32"))>>)

\* material.rs:85-96
UnityTexEnv == Struct(<<F("texture", PPtr), F("scale", Vec2f), F("offset", Vec2f)>>)

\* A property sheet with its maps in the order floats, tex_envs, colors.
FloatsFirst ==
    Struct(<<F("floats", Map(String, P("f32"))),
             F("tex_envs", Map(String, UnityTexEnv)),
             F("colors", Map(String, ColorRGBAf))>>)

\* material.rs:149-165
UnityPropertySheet ==
    Struct(<<F("tex_envs", Map(String, UnityTexEnv)),
             F("floats", Map(String, P("f32"))),
             F("colors", Map(String, ColorRGBAf))>>)

\* material.rs:18-43
UnityMaterial ==
    Struct(<<F("name", P("char_array")),
             F("shader", PPtr),
             F("keywords", P("char_array")),
             D("_lightmap_flags", P("u32")),
             D("_enable_instancing_variants", P("bool")),
             D("_double_sided_gi", P("bool")),
             D("align", P("align")),
             D("_custom_render_queue", P("i32")),
             D("_string_tag_map", StringTagMap),
             D("_disabled_shader_passes", Array(String)),
             F("saved_properties", UnityPropertySheet)>>)

\* material.rs:173-180
UnityShaderSerializedTextureProperty ==
    Struct(<<F("name", P("char_array")), F("dimension", P("u32"))>>)

\* material.rs:193-218
UnityShaderSerializedProperty ==
    Struct(<<F("name", P("char_array")),
             F("description", P("char_array")),
             F("attributes", Array(String)),
             F("prop_type", P("u32")),
             F("flags", P("u32")),
             F("def_value", Repeat(4, P("f32"))),
             F("def_texture", UnityShaderSerializedTextureProperty)>>)

\* material.rs:235-242
UnityShaderSerializedShaderFloatValue ==
    Struct(<<F("val", P("f32")), F("name", P("char_array"))>>)

\* material.rs:256-268
UnityShaderSerializedShaderRTBlendState ==
    Struct(<<F("src_blend", UnityShaderSerializedShaderFloatValue),
             F("dest_blend", UnityShaderSerializedShaderFloatValue),
             F("src_blend_alpha", UnityShaderSerializedShaderFloatValue),
             F("dest_blend_alpha", UnityShaderSerializedShaderFloatValue),
             F("blend_op", UnityShaderSerializedShaderFloatValue),
             F("blend_op_alpha", UnityShaderSerializedShaderFloatValue),
             F("col_mask", UnityShaderSerializedShaderFloatValue)>>)

\* material.rs:279-288
UnityShaderSerializedStencilOp ==
    Struct(<<F("pass", UnityShaderSerializedShaderFloatValue),
             F("fail", UnityShaderSerializedShaderFloatValue),
             F("z_fail", UnityShaderSerializedShaderFloatValue),
             F("comp", UnityShaderSerializedShaderFloatValue)>>)

\* material.rs:300-310
UnityShaderSerializedShaderVectorValue ==
    Struct(<<F("x", UnityShaderSerializedShaderFloatValue),
             F("y", UnityShaderSerializedShaderFloatValue),
             F("z", UnityShaderSerializedShaderFloatValue),
             F("w", UnityShaderSerializedShaderFloatValue),
             F("name", P("char_array"))>>)

\* material.rs:367-456
UnityShaderSerializedShaderState(v) ==
    Struct(<<F("name", P("char_array")),
             F("rt_blend", Repeat(8, UnityShaderSerializedShaderRTBlendState)),
             F("rt_separate_blend", P("bool")),
             D("align", P("align")),
             F("z_clip", IF VersionGE(v, UnityVersion(2017, 2, 0))
                         THEN Some(UnityShaderSerializedShaderFloatValue) ELSE None),
             F("z_test", UnityShaderSerializedShaderFloatValue),
             F("z_write", UnityShaderSerializedShaderFloatValue),
             F("culling", UnityShaderSerializedShaderFloatValue),
             F("conservative", IF VersionGE(v, UnityVersion(2020, 0, 0))
                               THEN Some(UnityShaderSerializedShaderFloatValue) ELSE None),
             F("offset_factor", UnityShaderSerializedShaderFloatValue),
             F("offset_units", UnityShaderSerializedShaderFloatValue),
             F("alpha_to_mask", UnityShaderSerializedShaderFloatValue),
             F("stencil_op", UnityShaderSerializedStencilOp),
             F("stencil_op_front", UnityShaderSerializedStencilOp),
             F("stencil_op_back", UnityShaderSerializedStencilOp),
             F("stencil_read_mask", UnityShaderSerializedShaderFloatValue),
             F("stencil_write_mask", UnityShaderSerializedShaderFloatValue),
             F("stencil_ref", UnityShaderSerializedShaderFloatValue),
             F("fog_start", UnityShaderSerializedShaderFloatValue),
             F("fog_end", UnityShaderSerializedShaderFloatValue),
             F("fog_density", UnityShaderSerializedShaderFloatValue),
             F("fog_color", UnityShaderSerializedShaderVectorValue),
             F("fog_mode", P("fog_mode")),
             F("gpu_program_id", P("i32")),
             F("tags", StringTagMap),
             F("lod", P("i32")),
             F("lighting", P("bool")),
             D("align", P("align"))>>)

\* material.rs:465-472
UnityShaderBindChannel == Struct(<<F("source", P("u8")), F("target", P("u8"))>>)

\* material.rs:481-490
UnityShaderParserBindChannels ==
    Struct(<<F("channels", Array(UnityShaderBindChannel)), F("source_map", P("u32"))>>)

\* material.rs:539-555
UnityShaderVectorParameter ==
    Struct(<<F("name_index", P("i32")), F("index", P("i32")), F("array_size", P("i32")),
             F("typ", P("u8")), F("dim", P("u8")), D("align", P("align"))>>)

\* material.rs:567-583
UnityShaderMatrixParameter ==
    Struct(<<F("name_index", P("i32")), F("index", P("i32")), F("array_size", P("i32")),
             F("typ", P("u8")), F("row_count", P("u8")), D("align", P("align"))>>)

\* material.rs:595-620
UnityShaderTextureParameter(v) ==
    Struct(<<F("name_index", P("i32")), F("index", P("i32")), F("sampler_index", P("i32")),
             F("multi_sampled", IF VersionGE(v, UnityVersion(2017, 3, 0))
                                THEN Some(P("bool")) ELSE None),
             F("dim", P("u8")), D("align", P("align"))>>)

\* material.rs:630-646
UnityShaderBufferBinding(v) ==
    Struct(<<F("name_index", P("i32")), F("index", P("i32")),
             F("array_size", IF VersionGE(v, UnityVersion(2020, 0, 0))
                             THEN Some(P("i32")) ELSE None)>>)

\* material.rs:659-670
UnityShaderStructParameter ==
    Struct(<<F("name_index", P("i32")), F("index", P("i32")), F("array_size", P("i32")),
             F("struct_size", P("i32")),
             F("vector_params", Array(UnityShaderVectorParameter)),
             F("matrix_params", Array(UnityShaderMatrixParameter))>>)

\* A gate without the gap between 2020 and 2021.1.4.
PartialCbGateSince2020(v) == VersionGE(v, UnityVersion(2020, 3, 2))

\* material.rs:704-718 and 948-962: the gate of is_partial_cb and of
\* common_parameters.
PartialCbGate(v) ==
    \/ VersionGE(v, UnityVersion(2021, 1, 4))
    \/ (v[1] = 2020 /\ VersionGE(v, UnityVersion(2020, 3, 2)))

\* material.rs:683-732
UnityShaderConstantBuffer(v) ==
    Struct(<<F("name_index", P("i32")),
             F("matrix_params", Array(UnityShaderMatrixParameter)),
             F("vector_params", Array(UnityShaderVectorParameter)),
             F("struct_params", IF VersionGE(v, UnityVersion(2017, 3, 0))
                                THEN Some(Array(UnityShaderStructParameter)) ELSE None),
             F("size", P("i32")),
             F("is_partial_cb", IF PartialCbGate(v) THEN Some(P("bool")) ELSE None),
             D("align", IF PartialCbGate(v) THEN P("align") ELSE None)>>)

\* material.rs:742-750
UnityShaderUAVParameter ==
    Struct(<<F("name_index", P("i32")), F("index", P("i32")), F("original_index", P("i32"))>>)

\* material.rs:759-766
UnityShaderSamplerParameter ==
    Struct(<<F("sampler", P("u32")), F("bind_point", P("i32"))>>)

\* material.rs:781-804
UnityShaderSerializedProgramParameters(v) ==
    Struct(<<F("vector_params", Array(UnityShaderVectorParameter)),
             F("matrix_params", Array(UnityShaderMatrixParameter)),
             F("texture_params", Array(UnityShaderTextureParameter(v))),
             F("buffer_params", Array(UnityShaderBufferBinding(v))),
             F("constant_buffers", Array(UnityShaderConstantBuffer(v))),
             F("constant_buffer_bindings", Array(UnityShaderBufferBinding(v))),
             F("uav_params", Array(UnityShaderUAVParameter)),
             F("samplers", IF VersionGE(v, UnityVersion(2017, 0, 0))
                           THEN Some(Array(UnityShaderSamplerParameter)) ELSE None)>>)

\* The keyword indices of a sub-program in one array for every version.
SubProgramKeywordsUnsplit(v) ==
    <<F("global_keyword_indices", None),
      F("local_keyword_indices", None),
      F("keyword_indices", Some(P("u16_array"))),
      D("align", IF VersionGE(v, UnityVersion(2017, 0, 0)) THEN P("align") ELSE None)>>

\* material.rs:876-901: the keyword indices of a sub-program.
SubProgramKeywords(v) ==
    IF VersionGE(v, UnityVersion(2019, 0, 0)) /\ VersionLT(v, UnityVersion(2021, 2, 0))
    THEN <<F("global_keyword_indices", Some(P("u16_array"))),
           D("align", P("align")),
           F("local_keyword_indices", Some(P("u16_array"))),
           D("align", P("align")),
           F("keyword_indices", None)>>
    ELSE <<F("global_keyword_indices", None),
           F("local_keyword_indices", None),
           F("keyword_indices", Some(P("u16_array"))),
           D("align", IF VersionGE(v, UnityVersion(2017, 0, 0)) THEN P("align") ELSE None)>>

\* material.rs:861-935
UnityShaderSerializedSubProgram(v) ==
    Struct(<<F("blob_index", P("u32")),
             F("channels", UnityShaderParserBindChannels)>>
           \o SubProgramKeywords(v) \o
           <<F("shader_hardware_tier", P("u8")),
             F("gpu_program_type", P("gpu_program_type")),
             D("align", P("align")),
             F("parameters", Some(UnityShaderSerializedProgramParameters(v))),
             F("shader_requirements",
               IF VersionGE(v, UnityVersion(2017, 2, 0))
               THEN Some(IF VersionGE(v, UnityVersion(2021, 0, 0))
                         THEN P("i64") ELSE P("i32_into_i64"))
               ELSE None)>>)

\* material.rs:944-971
UnityShaderSerializedProgram(v) ==
    Struct(<<F("sub_programs", Array(UnityShaderSerializedSubProgram(v))),
             F("common_parameters",
               IF PartialCbGate(v) THEN Some(UnityShaderSerializedProgramParameters(v))
               ELSE None)>>)

\* material.rs:978-986
Hash128 == Struct(<<F("value", Repeat(16, P("u8")))>>)

\* material.rs:1024-1047: what a pass starts with from 2020.2 on.
PassEditorData(v) ==
    IF VersionGE(v, UnityVersion(2020, 2, 0))
    THEN <<D("_editor_data_hash", Array(Hash128)),
           D("align", P("align")),
           D("_platforms", P("byte_array")),
           D("align", P("align"))>>
         \o (IF VersionLT(v, UnityVersion(2021, 2, 0))
             THEN <<D("_local_keyword_mask", P("u16_array")),
                    D("align", P("align")),
                    D("_global_keyword_mask", P("u16_array")),
                    D("align", P("align"))>>
             ELSE <<>>)
    ELSE <<>>

\* material.rs:1022-1122
UnityShaderSerializedPass(v) ==
    Struct(PassEditorData(v) \o
           <<F("name_indices", Map(String, P("i32"))),
             F("typ", P("pass_type")),
             F("state", UnityShaderSerializedShaderState(v)),
             F("program_mask", P("u32")),
             F("prog_vertex", UnityShaderSerializedProgram(v)),
             F("prog_fragment", UnityShaderSerializedProgram(v)),
             F("prog_geometry", UnityShaderSerializedProgram(v)),
             F("prog_hull", UnityShaderSerializedProgram(v)),
             F("prog_domain", UnityShaderSerializedProgram(v)),
             F("prog_ray_tracing", IF VersionGE(v, UnityVersion(2019, 3, 0))
                                   THEN Some(UnityShaderSerializedProgram(v)) ELSE None),
             F("has_instancing_variant", P("bool")),
             F("has_procedural_instancing_variant",
               IF VersionGE(v, UnityVersion(2018, 0, 0)) THEN Some(P("bool")) ELSE None),
             D("align", P("align")),
             F("use_name", P("char_array")),
             F("name", P("char_array")),
             F("texture_name", P("char_array")),
             F("tags", StringTagMap),
             F("serialized_keyword_state_mask",
               IF VersionGE(v, UnityVersion(2021, 2, 0)) THEN Some(P("u16_array")) ELSE None),
             D("align", IF VersionGE(v, UnityVersion(2021, 2, 0)) THEN P("align") ELSE None)>>)

\* material.rs:1132-1140
UnityShaderSerializedSubShader(v) ==
    Struct(<<F("passes", Array(UnityShaderSerializedPass(v))),
             F("tags", StringTagMap),
             F("lod", P("i32"))>>)

\* material.rs:1150-1165
UnityShader(v) ==
    Struct(<<F("name", P("char_array")),
             F("props", Array(UnityShaderSerializedProperty)),
             F("sub_shaders", Array(UnityShaderSerializedSubShader(v)))>>)

\* UnityMaterial::deserialize(reader, asset)
UnityMaterial_deserialize(rd, info) == Call("Deserialize", rd, <<UnityMaterial>>)

\* UnityShader::deserialize(reader, asset)
UnityShader_deserialize(rd, info) ==
    Call("Deserialize", rd, <<UnityShader(info.metadata.unity_version)>>)

\* `.map_err(|err| format!("{:?}", err))`: a failure becomes the text of its
\* Debug form, which names the error and what it holds.
MapErrDebug(r) ==
    IF r.ok \/ IsPanic(r) THEN r
    ELSE [r EXCEPT !.err = [kind |-> "String", arg |-> <<r.err.kind, r.err.arg>>]]

\* UnityMaterial::from_bytes(data, asset) (material.rs:46-55): a reader of
\* its own on data, in the byte order of the header.
UnityMaterial_from_bytes(data, info) ==
    LET rd == [data |-> data, pos |-> 0, endianness |-> "Big"]
    IN  MapErrDebug(Call("UnityMaterial_deserialize",
                         set_endianness(rd, info.header.endianness), <<info>>))

\* UnityShader::from_bytes(data, asset) (material.rs:1168-1177)
UnityShader_from_bytes(data, info) ==
    LET rd == [data |-> data, pos |-> 0, endianness |-> "Big"]
    IN  MapErrDebug(Call("UnityShader_deserialize",
                         set_endianness(rd, info.header.endianness), <<info>>))

(***************************************************************************)
(* The functions above call one another by name: Call(f, rd, a) is the    *)
(* function f applied to the reader rd and the other arguments a.         *)
(***************************************************************************)
Call(f, rd, a) ==
    CASE f = "ReadWord" -> ReadWord(rd, a[1])
      [] f = "align" -> align(rd)
      [] f = "seek_to_object" -> seek_to_object(rd, a[1])
      [] f = "read_u8" -> read_u8(rd)
      [] f = "read_u16" -> read_u16(rd)
      [] f = "read_i16" -> read_i16(rd)
      [] f = "read_i64" -> read_i64(rd)
      [] f = "read_i32" -> read_i32(rd)
      [] f = "read_u32" -> read_u32(rd)
      [] f = "read_u64" -> read_u64(rd)
      [] f = "read_f32" -> read_f32(rd)
      [] f = "read_u32_array" -> read_u32_array(rd)
      [] f = "read_bytes" -> read_bytes(rd, a[1])
      [] f = "read_byte_array" -> read_byte_array(rd)
      [] f = "read_char_array" -> read_char_array(rd)
      [] f = "read_null_terminated_string" -> read_null_terminated_string(rd)
      [] f = "read_bool" -> read_bool(rd)
      [] f = "ReadHeaderV22" -> ReadHeaderV22(rd, a[1], a[2])
      [] f = "read_header" -> read_header(rd)
      [] f = "read_type_tree_blob" -> read_type_tree_blob(rd, a[1])
      [] f = "read_type_tree" -> read_type_tree(rd, a[1])
      [] f = "TypeTreeTurn" -> TypeTreeTurn(rd, a[1], a[2])
      [] f = "ReadTypeTail" -> ReadTypeTail(rd, a[1], a[2], a[3])
      [] f = "read_unity_type" -> read_unity_type(rd, a[1], a[2], a[3])
      [] f = "read_metadata" -> read_metadata(rd, a[1])
      [] f = "read_object" -> read_object(rd, a[1], a[2])
      [] f = "read_objects" -> read_objects(rd, a[1], a[2])
      [] f = "read_script_types" -> read_script_types(rd)
      [] f = "read_externals" -> read_externals(rd)
      [] f = "read_ref_types" -> read_ref_types(rd, a[1], a[2])
      [] f = "read_asset_info" -> read_asset_info(rd)
      [] f = "read_u16_array" -> read_u16_array(rd)
      [] f = "Deserialize" -> Deserialize(rd, a[1])
      [] f = "DeserializeN" -> DeserializeN(rd, a[1], a[2])
      [] f = "DeserializePairs" -> DeserializePairs(rd, a[1], a[2], a[3])
      [] f = "deserialize_array" -> deserialize_array(rd, a[1])
      [] f = "UnityMaterial_deserialize" -> UnityMaterial_deserialize(rd, a[1])
      [] f = "UnityShader_deserialize" -> UnityShader_deserialize(rd, a[1])
      [] f = "UnityMaterial_from_bytes" -> UnityMaterial_from_bytes(a[1], a[2])
      [] f = "UnityShader_from_bytes" -> UnityShader_from_bytes(a[1], a[2])

(***************************************************************************)
(* Inputs.  The buffers the reader runs on are synthesized: a serializer   *)
(* writes a value of a type in the layout the format gives it and returns, *)
(* with the bytes, the value a decoder is expected to read back.  None of  *)
(* this is code of the program; it is the test data of the model.          *)
(*                                                                         *)
(* A payload is described by its knobs k:                                  *)
(*   k.counts   field name -> length of the array / map / u16 array of     *)
(*              that name (0 when absent)                                  *)
(*   k.strlen   field name -> length of the strings of that name (0)       *)
(*   k.ints     field name -> value of the i32 / enum of that name         *)
(* Every other content is derived from the offset it is written at, so     *)
(* that equal values at different places are told apart.                   *)
(***************************************************************************)
\* A part of the serializer by its name, defined once they all are.
RECURSIVE Emit(_, _)

Knob(f, name, default) == IF name \in DOMAIN f THEN f[name] ELSE default

\* The bytes of word w in byte order e.
Put(w, e) == IF e = "Big" THEN w ELSE Reverse(w)

PadTo4(acc) == acc \o Zeros((4 - (Len(acc) % 4)) % 4)

GenString(acc, n) == [i \in 1..n |-> 97 + ((Len(acc) + i) % 26)]

GenU16s(acc, n, e, vals) ==
    IF n <= 0 \/ Len(acc) + Len(vals) < 0 THEN [bytes |-> acc, val |-> vals]
    ELSE LET x == 256 + (Len(acc) % 256)
         IN  Emit("GenU16s", <<acc \o Put(BytesOfNat(x, 2), e), n - 1, e, Append(vals, x)>>)

\* The bytes and the value of one primitive read.
GenPrimitive(acc, kd, name, k, e) ==
    LET at == Len(acc)
        n == Knob(k.counts, name, 0)
        len == Knob(k.strlen, name, 0)
        chars == GenString(acc, len)
        int == Knob(k.ints, name, 1 + (at % 97))
        neg == Knob(k.ints, name, 0 - 1 - (at % 5))
        disc == Knob(k.ints, name, 1)
    IN  CASE kd = "u8" -> [bytes |-> acc \o <<1 + (at % 200)>>, val |-> 1 + (at % 200)]
          [] kd = "bool" -> [bytes |-> acc \o <<(at \div 4) % 2>>, val |-> (at \div 4) % 2 = 1]
          [] kd = "i32" -> [bytes |-> acc \o Put(BytesOfInt(int, 4), e), val |-> int]
          [] kd = "u32" -> [bytes |-> acc \o Put(<<0, 1, 2, at % 256>>, e),
                            val |-> <<0, 1, 2, at % 256>>]
          [] kd = "f32" -> [bytes |-> acc \o Put(<<63, 128, 1, at % 256>>, e),
                            val |-> <<63, 128, 1, at % 256>>]
          [] kd = "i64" -> [bytes |-> acc \o Put(<<0, 0, 0, 0, 0, 1, 2, at % 256>>, e),
                            val |-> <<0, 0, 0, 0, 0, 1, 2, at % 256>>]
          [] kd = "i32_into_i64" -> [bytes |-> acc \o Put(BytesOfInt(neg, 4), e),
                                     val |-> BytesOfInt(neg, 8)]
          [] kd = "char_array" ->
                [bytes |-> PadTo4(acc \o Put(BytesOfNat(len, 4), e) \o chars), val |-> chars]
          [] kd = "byte_array" ->
                [bytes |-> acc \o Put(BytesOfNat(len, 4), e) \o chars, val |-> chars]
          [] kd = "u16_array" -> Emit("GenU16s", <<acc \o Put(BytesOfNat(n, 4), e), n, e, <<>>>>)
          [] kd = "align" -> [bytes |-> PadTo4(acc), val |-> 0]
          [] kd = "pass_type" ->
                [bytes |-> acc \o Put(BytesOfInt(disc, 4), e),
                 val |-> IF disc \in 0..2 THEN UnityShaderPassType[disc + 1] ELSE "?"]
          [] kd = "fog_mode" ->
                [bytes |-> acc \o Put(BytesOfInt(disc, 4), e),
                 val |-> IF disc \in -1..3 THEN UnityShaderFogMode[disc + 2] ELSE "?"]
          [] kd = "gpu_program_type" ->
                [bytes |-> acc \o <<disc % 256>>,
                 val |-> IF disc \in 0..31 THEN UnityShaderGpuProgramType[disc + 1] ELSE "?"]


Got(acc) == [bytes |-> acc, val |-> <<>>]

NameAt(fields, i) == IF i <= Len(fields) THEN fields[i].name ELSE ""

\* acc extended by a value of type ty, and that value.
Gen(acc, ty, name, k, e) ==
    CASE Len(acc) >= 0 /\ ty.k = "struct" ->
            LET fs == ty.fields
                f01 == Emit("Gen", <<acc, TypeAt(fs, 1), NameAt(fs, 1), k, e>>)
                f02 == Emit("Gen", <<f01.bytes, TypeAt(fs, 2), NameAt(fs, 2), k, e>>)
                f03 == Emit("Gen", <<f02.bytes, TypeAt(fs, 3), NameAt(fs, 3), k, e>>)
                f04 == Emit("Gen", <<f03.bytes, TypeAt(fs, 4), NameAt(fs, 4), k, e>>)
                f05 == Emit("Gen", <<f04.bytes, TypeAt(fs, 5), NameAt(fs, 5), k, e>>)
                f06 == Emit("Gen", <<f05.bytes, TypeAt(fs, 6), NameAt(fs, 6), k, e>>)
                f07 == Emit("Gen", <<f06.bytes, TypeAt(fs, 7), NameAt(fs, 7), k, e>>)
                f08 == Emit("Gen", <<f07.bytes, TypeAt(fs, 8), NameAt(fs, 8), k, e>>)
                f09 == Emit("Gen", <<f08.bytes, TypeAt(fs, 9), NameAt(fs, 9), k, e>>)
                f10 == Emit("Gen", <<f09.bytes, TypeAt(fs, 10), NameAt(fs, 10), k, e>>)
                f11 == Emit("Gen", <<f10.bytes, TypeAt(fs, 11), NameAt(fs, 11), k, e>>)
                f12 == Emit("Gen", <<f11.bytes, TypeAt(fs, 12), NameAt(fs, 12), k, e>>)
                f13 == Emit("Gen", <<f12.bytes, TypeAt(fs, 13), NameAt(fs, 13), k, e>>)
                f14 == Emit("Gen", <<f13.bytes, TypeAt(fs, 14), NameAt(fs, 14), k, e>>)
                f15 == Emit("Gen", <<f14.bytes, TypeAt(fs, 15), NameAt(fs, 15), k, e>>)
                f16 == Emit("Gen", <<f15.bytes, TypeAt(fs, 16), NameAt(fs, 16), k, e>>)
                f17 == Emit("Gen", <<f16.bytes, TypeAt(fs, 17), NameAt(fs, 17), k, e>>)
                f18 == Emit("Gen", <<f17.bytes, TypeAt(fs, 18), NameAt(fs, 18), k, e>>)
                f19 == Emit("Gen", <<f18.bytes, TypeAt(fs, 19), NameAt(fs, 19), k, e>>)
                f20 == Emit("Gen", <<f19.bytes, TypeAt(fs, 20), NameAt(fs, 20), k, e>>)
                f21 == Emit("Gen", <<f20.bytes, TypeAt(fs, 21), NameAt(fs, 21), k, e>>)
                f22 == Emit("Gen", <<f21.bytes, TypeAt(fs, 22), NameAt(fs, 22), k, e>>)
                f23 == Emit("Gen", <<f22.bytes, TypeAt(fs, 23), NameAt(fs, 23), k, e>>)
                f24 == Emit("Gen", <<f23.bytes, TypeAt(fs, 24), NameAt(fs, 24), k, e>>)
                f25 == Emit("Gen", <<f24.bytes, TypeAt(fs, 25), NameAt(fs, 25), k, e>>)
                f26 == Emit("Gen", <<f25.bytes, TypeAt(fs, 26), NameAt(fs, 26), k, e>>)
                f27 == Emit("Gen", <<f26.bytes, TypeAt(fs, 27), NameAt(fs, 27), k, e>>)
                f28 == Emit("Gen", <<f27.bytes, TypeAt(fs, 28), NameAt(fs, 28), k, e>>)
                f29 == Emit("Gen", <<f28.bytes, TypeAt(fs, 29), NameAt(fs, 29), k, e>>)
                f30 == Emit("Gen", <<f29.bytes, TypeAt(fs, 30), NameAt(fs, 30), k, e>>)
                f31 == Emit("Gen", <<f30.bytes, TypeAt(fs, 31), NameAt(fs, 31), k, e>>)
                f32 == Emit("Gen", <<f31.bytes, TypeAt(fs, 32), NameAt(fs, 32), k, e>>)
            IN  CASE Len(f01.bytes) < 0 -> f01
                  [] Len(f02.bytes) < 0 -> f02
                  [] Len(f03.bytes) < 0 -> f03
                  [] Len(f04.bytes) < 0 -> f04
                  [] Len(f05.bytes) < 0 -> f05
                  [] Len(f06.bytes) < 0 -> f06
                  [] Len(f07.bytes) < 0 -> f07
                  [] Len(f08.bytes) < 0 -> f08
                  [] Len(f09.bytes) < 0 -> f09
                  [] Len(f10.bytes) < 0 -> f10
                  [] Len(f11.bytes) < 0 -> f11
                  [] Len(f12.bytes) < 0 -> f12
                  [] Len(f13.bytes) < 0 -> f13
                  [] Len(f14.bytes) < 0 -> f14
                  [] Len(f15.bytes) < 0 -> f15
                  [] Len(f16.bytes) < 0 -> f16
                  [] Len(f17.bytes) < 0 -> f17
                  [] Len(f18.bytes) < 0 -> f18
                  [] Len(f19.bytes) < 0 -> f19
                  [] Len(f20.bytes) < 0 -> f20
                  [] Len(f21.bytes) < 0 -> f21
                  [] Len(f22.bytes) < 0 -> f22
                  [] Len(f23.bytes) < 0 -> f23
                  [] Len(f24.bytes) < 0 -> f24
                  [] Len(f25.bytes) < 0 -> f25
                  [] Len(f26.bytes) < 0 -> f26
                  [] Len(f27.bytes) < 0 -> f27
                  [] Len(f28.bytes) < 0 -> f28
                  [] Len(f29.bytes) < 0 -> f29
                  [] Len(f30.bytes) < 0 -> f30
                  [] Len(f31.bytes) < 0 -> f31
                  [] OTHER -> [bytes |-> f32.bytes, val |-> RecordOf(fs, <<
                         f01.val, f02.val, f03.val, f04.val, f05.val, f06.val, f07.val, f08.val,
                         f09.val, f10.val, f11.val, f12.val, f13.val, f14.val, f15.val, f16.val,
                         f17.val, f18.val, f19.val, f20.val, f21.val, f22.val, f23.val, f24.val,
                         f25.val, f26.val, f27.val, f28.val, f29.val, f30.val, f31.val, f32.val>>)]
      [] ty.k = "array" ->
            LET n == Knob(k.counts, name, 0)
                r == Emit("GenN", <<acc \o Put(BytesOfInt(n, 4), e), ty.elem, name, n, k, e>>)
            IN  [bytes |-> PadTo4(r.bytes), val |-> r.val]
      [] ty.k = "repeat" -> Emit("GenN", <<acc, ty.elem, name, ty.n, k, e>>)
      [] ty.k = "map" ->
            LET n == Knob(k.counts, name, 0)
            IN  Emit("GenPairs", <<acc \o Put(BytesOfInt(n, 4), e), ty.key, ty.value,
                                   name, n, k, e>>)
      [] ty.k = "some" ->
            LET r == Emit("Gen", <<acc, ty.of, name, k, e>>)
            IN  [bytes |-> r.bytes, val |-> <<r.val>>]
      [] ty.k = "none" -> Got(acc)
      [] OTHER -> Emit("GenPrimitive", <<acc, ty.k, name, k, e>>)

GenN(acc, elem, name, n, k, e) ==
    LET f1 == IF n >= 1 /\ Len(acc) >= 0 THEN Emit("Gen", <<acc, elem, name, k, e>>) ELSE Got(acc)
        f2 == IF n >= 2 THEN Emit("Gen", <<f1.bytes, elem, name, k, e>>) ELSE Got(f1.bytes)
        f3 == IF n >= 3 THEN Emit("Gen", <<f2.bytes, elem, name, k, e>>) ELSE Got(f2.bytes)
        f4 == IF n >= 4 THEN Emit("Gen", <<f3.bytes, elem, name, k, e>>) ELSE Got(f3.bytes)
        q == (n - 1) \div 4
        r1 == Emit("GenN", <<f4.bytes, elem, name, q, k, e>>)
        r2 == Emit("GenN", <<r1.bytes, elem, name, q, k, e>>)
        r3 == Emit("GenN", <<r2.bytes, elem, name, q, k, e>>)
        r4 == Emit("GenN", <<r3.bytes, elem, name, n - 4 - 3 * q, k, e>>)
    IN  CASE Len(f1.bytes) < 0 -> f1
          [] Len(f2.bytes) < 0 -> f2
          [] Len(f3.bytes) < 0 -> f3
          [] Len(f4.bytes) < 0 -> f4
          [] n <= 4 -> [bytes |-> f4.bytes,
                        val |-> SubSeq(<<f1.val, f2.val, f3.val, f4.val>>, 1, n)]
          [] Len(r1.bytes) < 0 -> r1
          [] Len(r2.bytes) < 0 -> r2
          [] Len(r3.bytes) < 0 -> r3
          [] OTHER -> [bytes |-> r4.bytes,
                       val |-> <<f1.val, f2.val, f3.val, f4.val>>
                               \o r1.val \o r2.val \o r3.val \o r4.val]

GenPairs(acc, key, value, name, n, k, e) ==
    LET k1 == IF n >= 1 /\ Len(acc) >= 0 THEN Emit("Gen", <<acc, key, name, k, e>>) ELSE Got(acc)
        v1 == IF n >= 1 THEN Emit("Gen", <<k1.bytes, value, name, k, e>>) ELSE Got(k1.bytes)
        k2 == IF n >= 2 THEN Emit("Gen", <<v1.bytes, key, name, k, e>>) ELSE Got(v1.bytes)
        v2 == IF n >= 2 THEN Emit("Gen", <<k2.bytes, value, name, k, e>>) ELSE Got(k2.bytes)
        q == (n - 1) \div 2
        r1 == Emit("GenPairs", <<v2.bytes, key, value, name, q, k, e>>)
        r2 == Emit("GenPairs", <<r1.bytes, key, value, name, n - 2 - q, k, e>>)
    IN  CASE Len(k1.bytes) < 0 -> k1
          [] Len(v1.bytes) < 0 -> v1
          [] Len(k2.bytes) < 0 -> k2
          [] Len(v2.bytes) < 0 -> v2
          [] n <= 2 -> [bytes |-> v2.bytes,
                        val |-> [keys |-> SubSeq(<<k1.val, k2.val>>, 1, n),
                                 vals |-> SubSeq(<<v1.val, v2.val>>, 1, n)]]
          [] Len(r1.bytes) < 0 -> r1
          [] OTHER -> [bytes |-> r2.bytes,
                       val |-> [keys |-> <<k1.val, k2.val>> \o r1.val.keys \o r2.val.keys,
                                vals |-> <<v1.val, v2.val>> \o r1.val.vals \o r2.val.vals]]

(***************************************************************************)
(* A serialized file.  fx describes it:                                    *)
(*   ver         the four bytes of the version field of the header         *)
(*   little      whether the file declares (and is written in) little      *)
(*               endian byte order                                         *)
(*   ext_native  whether the wide header fields of format 22 are written   *)
(*               in the declared byte order instead of big endian          *)
(*   engine      [str, v]: the engine version string and its value         *)
(*   type_tree   whether the types carry type trees                        *)
(*   classes     the class ids of the types                                *)
(*   ref_types   the number of reference types                             *)
(*   objs        the objects: [kind, k, type_id, slack, path], slack being *)
(*               what the declared size has over the bytes of the fields   *)
(*               the decoder of that kind reads                            *)
(*   cut         the number of bytes missing at the end of the buffer      *)
(***************************************************************************)
ByteOrder(fx) == IF fx.little THEN "Little" ELSE "Big"

\* The format version the body of the file is laid out for.
Layout(fx) ==
    IF FitsNat(fx.ver) /\ NatOfBytes(fx.ver) \in SupportedVersions
    THEN NatOfBytes(fx.ver) ELSE 17

HeaderLen(fx) == IF Layout(fx) >= 22 THEN 48 ELSE 20

PayloadType(kind, v) == IF kind = "Material" THEN UnityMaterial ELSE UnityShader(v)

FileHeader(fx, metadata_size, file_size, data_offset) ==
    LET wide == Layout(fx) >= 22
        x == IF fx.ext_native THEN ByteOrder(fx) ELSE "Big"
    IN  (IF wide THEN Zeros(8)
         ELSE BytesOfNat(metadata_size, 4) \o BytesOfNat(file_size, 4))
        \o fx.ver
        \o (IF wide THEN Zeros(4) ELSE BytesOfNat(data_offset, 4))
        \o <<IF fx.little THEN 0 ELSE 1, 0, 0, 0>>
        \o (IF wide
            THEN Put(BytesOfNat(metadata_size, 4), x) \o Put(BytesOfNat(file_size, 8), x)
                 \o Put(BytesOfNat(data_offset, 8), x) \o Put(BytesOfNat(7, 8), x)
            ELSE <<>>)

FileTypeTree(fx, is_ref_type) ==
    LET e == ByteOrder(fx)
        node == Put(BytesOfInt(1, 2), e) \o <<0, 0>> \o Put(<<0, 0, 0, 0>>, e)
                \o Put(<<0, 0, 0, 0>>, e) \o Put(BytesOfInt(4, 4), e)
                \o Put(BytesOfInt(0, 4), e) \o Put(BytesOfInt(0, 4), e)
                \o (IF Layout(fx) >= 19 THEN Zeros(8) ELSE <<>>)
    IN  IF ~fx.type_tree THEN <<>>
        ELSE Put(BytesOfInt(1, 4), e) \o Put(BytesOfInt(2, 4), e) \o node \o <<65, 0>>
             \o (IF Layout(fx) < 21 THEN <<>>
                 ELSE IF is_ref_type THEN <<67, 0, 78, 0, 65, 0>>
                 ELSE Put(BytesOfNat(1, 4), e) \o Put(<<0, 0, 1, 5>>, e))

FileType(fx, class_id, is_ref_type) ==
    LET e == ByteOrder(fx)
    IN  Put(BytesOfInt(class_id, 4), e) \o <<0>>
        \o Put(BytesOfInt(IF is_ref_type THEN 0 ELSE 0 - 1, 2), e)
        \o (IF is_ref_type \/ class_id < 0 \/ class_id = 114
            THEN [i \in 1..16 |-> 16 + i] ELSE <<>>)
        \o [i \in 1..16 |-> 32 + i]
        \o Emit("FileTypeTree", <<fx, is_ref_type>>)

FileTypes(fx, classes, is_ref_type) ==
    IF Len(classes) = 0 THEN <<>>
    ELSE Emit("FileType", <<fx, classes[1], is_ref_type>>)
         \o Emit("FileTypes", <<fx, Tail(classes), is_ref_type>>)

FileObjectTable(acc, fx, table, i) ==
    IF i > Len(fx.objs) \/ Len(acc) < 0 THEN acc
    ELSE LET e == ByteOrder(fx)
             o == fx.objs[i]
         IN  Emit("FileObjectTable", <<PadTo4(acc) \o Put(o.path, e)
                 \o Put(BytesOfNat(table[i].offset, IF Layout(fx) = 22 THEN 8 ELSE 4), e)
                 \o Put(BytesOfNat(table[i].size, 4), e)
                 \o Put(BytesOfInt(o.type_id, 4), e), fx, table, i + 1>>)

\* Everything between the header and the object data.
FileBody(acc, fx, table) ==
    LET e == ByteOrder(fx)
        metadata == acc \o fx.engine.str \o <<0>> \o Put(<<0, 0, 0, 19>>, e)
                    \o <<IF fx.type_tree THEN 1 ELSE 0>>
                    \o Put(BytesOfNat(Len(fx.classes), 4), e)
                    \o Emit("FileTypes", <<fx, fx.classes, FALSE>>)
        objects == Emit("FileObjectTable", <<metadata \o Put(BytesOfInt(Len(fx.objs), 4), e), fx, table, 1>>)
        script_types == PadTo4(objects \o Put(BytesOfInt(1, 4), e) \o Put(BytesOfInt(3, 4), e))
                        \o Put(<<0, 0, 0, 0, 0, 0, 2, 9>>, e)
        externals == script_types \o Put(BytesOfInt(1, 4), e) \o <<0>>
                     \o [i \in 1..16 |-> 48 + i] \o Put(BytesOfInt(2, 4), e) \o <<97, 0>>
        ref_types == IF Layout(fx) >= 20
                     THEN externals \o Put(BytesOfInt(fx.ref_types, 4), e)
                          \o Emit("FileTypes", <<fx, [i \in 1..fx.ref_types |-> 0 - 1], TRUE>>)
                     ELSE externals
    IN  ref_types \o <<0>>

\* The data of the objects from i on, each at a multiple of 8, after acc.
PlaceObjects(acc, fx, i, placed) ==
    IF i > Len(fx.objs) \/ Len(acc) < 0 THEN [bytes |-> acc, placed |-> placed]
    ELSE LET o == fx.objs[i]
             at == acc \o Zeros((8 - (Len(acc) % 8)) % 8)
             g == Emit("Gen", <<at, PayloadType(o.kind, fx.engine.v), "root", o.k, ByteOrder(fx)>>)
         IN  Emit("PlaceObjects", <<g.bytes \o Zeros(IF o.slack > 0 THEN o.slack ELSE 0), fx, i + 1, Append(placed, [start |-> Len(at),
                                          len |-> Len(g.bytes) - Len(at),
                                          val |-> g.val])>>)

\* The buffer of fx, with where its parts are and what they hold.
File(fx) ==
    LET blank == Zeros(HeaderLen(fx))
        body0 == Emit("FileBody", <<blank, fx, [i \in 1..Len(fx.objs) |-> [offset |-> 0, size |-> 0]]>>)
        data_offset == ((Len(body0) + 15) \div 16) * 16
        laid == Emit("PlaceObjects", <<body0 \o Zeros(data_offset - Len(body0)), fx, 1, <<>>>>)
        tab == [i \in 1..Len(fx.objs) |->
                     [offset |-> laid.placed[i].start - data_offset,
                      size |-> laid.placed[i].len + fx.objs[i].slack]]
        body == Emit("FileBody", <<blank, fx, tab>>)
        metadata_size == Len(body) - HeaderLen(fx)
        file_size == Len(laid.bytes)
        full == Emit("FileHeader", <<fx, metadata_size, file_size, data_offset>>)
                \o SubSeq(body, HeaderLen(fx) + 1, Len(body))
                \o SubSeq(laid.bytes, Len(body) + 1, file_size)
    IN  [data |-> SubSeq(full, 1, file_size - fx.cut),
         metadata_size |-> metadata_size,
         file_size |-> file_size,
         data_offset |-> data_offset,
         placed |-> laid.placed]

\* The parts of the serializer by name: Emit(f, a) is the part f of a.
Emit(f, a) ==
    CASE f = "GenU16s" -> GenU16s(a[1], a[2], a[3], a[4])
      [] f = "GenPrimitive" -> GenPrimitive(a[1], a[2], a[3], a[4], a[5])
      [] f = "Gen" -> Gen(a[1], a[2], a[3], a[4], a[5])
      [] f = "GenN" -> GenN(a[1], a[2], a[3], a[4], a[5], a[6])
      [] f = "GenPairs" -> GenPairs(a[1], a[2], a[3], a[4], a[5], a[6], a[7])
      [] f = "FileHeader" -> FileHeader(a[1], a[2], a[3], a[4])
      [] f = "FileTypeTree" -> FileTypeTree(a[1], a[2])
      [] f = "FileType" -> FileType(a[1], a[2], a[3])
      [] f = "FileTypes" -> FileTypes(a[1], a[2], a[3])
      [] f = "FileObjectTable" -> FileObjectTable(a[1], a[2], a[3], a[4])
      [] f = "FileBody" -> FileBody(a[1], a[2], a[3])
      [] f = "PlaceObjects" -> PlaceObjects(a[1], a[2], a[3], a[4])
      [] f = "File" -> File(a[1])

(***************************************************************************)
(* The inputs of the model                                                 *)
(***************************************************************************)
MaxNameLen == 3    \* the names of the materials have 0..MaxNameLen characters
MaxSlack == 1      \* the declared sizes exceed the decoded fields by 0..MaxSlack
MaxCut == 1        \* the buffers miss 0..MaxCut bytes at their end
MaxEntries == 1    \* the maps of the materials have 0..MaxEntries entries
MaxCalls == 5      \* the caller makes at most MaxCalls calls on a reader

Builds ==
    {[usize_bits |-> 64, eof |-> "end", overflow_checks |-> TRUE],
     [usize_bits |-> 32, eof |-> "keep", overflow_checks |-> FALSE]}

E5 == [str |-> <<53, 46, 54, 46, 48, 102, 49>>, v |-> <<5, 6, 0, 2, 1>>]

E19 == [str |-> <<50, 48, 49, 57, 46, 50, 46, 49, 55, 102, 49>>, v |-> <<2019, 2, 17, 2, 1>>]

E20 == [str |-> <<50, 48, 50, 48, 46, 51, 46, 50, 102, 49>>, v |-> <<2020, 3, 2, 2, 1>>]

E21 == [str |-> <<50, 48, 50, 49, 46, 50, 46, 48, 102, 49>>, v |-> <<2021, 2, 0, 2, 1>>]

Engines == {E5, E19, E20, E21}

\* The version fields: the formats 16..23, 17 in the wrong byte order, 2^32-1.
VersionWords ==
    {<<0, 0, 0, v>> : v \in 16..23} \cup {<<17, 0, 0, 0>>, <<255, 255, 255, 255>>}

NoKnobs == [x \in {} |-> 0]

MaterialObj(namelen, entries, type_id, slack) ==
    [kind |-> "Material",
     k |-> [counts |-> [tex_envs |-> entries, floats |-> entries, colors |-> entries],
            strlen |-> [name |-> namelen, tex_envs |-> 2, floats |-> 1, colors |-> 3],
            ints |-> NoKnobs],
     type_id |-> type_id, slack |-> slack, path |-> <<0, 0, 0, 0, 0, 0, 1, 21>>]

\* A shader with `depth` levels of its arrays filled: 0 none, 1 a sub shader
\* with a pass, 2 the pass with a vertex sub program and the shader a property.
ShaderObj(depth, ints, slack) ==
    [kind |-> "Shader",
     k |-> [counts |-> CASE depth = 0 -> NoKnobs
                         [] depth = 1 -> [sub_shaders |-> 1, passes |-> 1]
                         [] OTHER -> [sub_shaders |-> 1, passes |-> 1, sub_programs |-> 1,
                                      props |-> 1, channels |-> 2],
            strlen |-> [name |-> 2],
            ints |-> ints],
     type_id |-> 1, slack |-> slack, path |-> <<255, 255, 255, 255, 255, 255, 255, 48>>]

ValidEnums == [typ |-> 0, fog_mode |-> 0 - 1, gpu_program_type |-> 0]

\* The discriminants of the enums of a shader: in range and out of range.
EnumCases ==
    {ValidEnums,
     [typ |-> 2, fog_mode |-> 3, gpu_program_type |-> 31],
     [typ |-> 3, fog_mode |-> 1, gpu_program_type |-> 1],
     [typ |-> 0 - 1, fog_mode |-> 1, gpu_program_type |-> 1],
     [typ |-> 1, fog_mode |-> 4, gpu_program_type |-> 1],
     [typ |-> 1, fog_mode |-> 0 - 2, gpu_program_type |-> 1],
     [typ |-> 1, fog_mode |-> 1, gpu_program_type |-> 32]}

Fx(ver, little, ext_native, type_tree, engine, objs, cut, budget) ==
    [ver |-> ver, little |-> little, ext_native |-> ext_native, engine |-> engine,
     type_tree |-> type_tree, classes |-> <<21, 48, 114>>, ref_types |-> 1,
     objs |-> objs, cut |-> cut, calls |-> budget]

Basic(namelen, entries, slack) ==
    <<MaterialObj(namelen, entries, 0, slack), ShaderObj(0, NoKnobs, slack)>>

V21 == <<0, 0, 0, 21>>

\* Every version field, in both byte orders, with and without type trees;
\* format 22 with its wide header fields in the byte order of the file.
FxVersions ==
    {Fx(ver, little, FALSE, type_tree, E19, Basic(1, 1, 0), 0, MaxCalls - 4) :
        ver \in VersionWords, little \in BOOLEAN, type_tree \in BOOLEAN}
    \cup {Fx(<<0, 0, 0, 22>>, little, TRUE, FALSE, E19, Basic(1, 1, 0), 0, MaxCalls - 4) :
            little \in BOOLEAN}

\* Materials of every name length and map size; with slack and cut.
FxMaterials ==
    {Fx(V21, little, FALSE, FALSE, E19, Basic(namelen, 0, 0), 0, MaxCalls - 2) :
        little \in BOOLEAN, namelen \in 0..MaxNameLen}
    \cup {Fx(V21, FALSE, FALSE, FALSE, E19, Basic(1, entries, 0), 0, MaxCalls - 2) :
            entries \in 0..MaxEntries}
    \cup {Fx(V21, TRUE, FALSE, FALSE, E19, Basic(1, 1, slack), cut, MaxCalls - 2) :
            slack \in 0..MaxSlack, cut \in 0..MaxCut}

\* Shaders of every engine, and of one engine with every case of the enums.
FxShaders ==
    {Fx(<<0, 0, 0, 20>>, little, FALSE, FALSE, engine, <<ShaderObj(2, ints, 4)>>, 0,
        MaxCalls - 2) :
        little \in BOOLEAN, engine \in Engines, ints \in {ValidEnums}}
    \cup {Fx(<<0, 0, 0, 20>>, TRUE, FALSE, FALSE, E20, <<ShaderObj(2, ints, 4)>>, 0,
             MaxCalls - 2) : ints \in EnumCases}

\* Objects whose type index has no type.
FxTypeIds ==
    {Fx(ver, little, FALSE, FALSE, E19,
        <<MaterialObj(0, 0, 0, 0), MaterialObj(1, 0, type_id, 0)>>, 0, MaxCalls - 4) :
        ver \in {<<0, 0, 0, 17>>, <<0, 0, 0, 22>>}, little \in BOOLEAN,
        type_id \in {0 - 1, 2, 3, 100, 0 - 100}}

\* Files whose objects the caller decodes more than once.
FxRepeats ==
    {Fx(V21, TRUE, FALSE, FALSE, E19, Basic(2, 1, 1), 0, MaxCalls),
     Fx(V21, FALSE, FALSE, FALSE, E20, <<ShaderObj(2, ValidEnums, 0)>>, 1, MaxCalls)}

Fixtures == FxVersions \cup FxMaterials \cup FxShaders \cup FxTypeIds \cup FxRepeats

\* The serialized file of every fixture.
Files == [fx \in Fixtures |-> Emit("File", <<fx>>)]

(***************************************************************************)
(* The reader and its caller                                               *)
(***************************************************************************)
Called(op, arg, r) ==
    [op |-> op, arg |-> arg, start |-> [pos |-> reader.pos, endianness |-> reader.endianness],
     ok |-> r.ok, err |-> r.err, val |-> r.val]

\* A call leaves the reader where it ended and its result with the caller.
Returns(op, arg, r) ==
    /\ reader' = r.rd
    /\ ret' = Called(op, arg, r)

\* A panic ends the thread that holds the reader; the caller of a fixture
\* makes at most as many calls as the fixture says.
Running == ret.err.kind \notin PanicKinds /\ calls < fixture.fx.calls

\* AssetReader::new (reader.rs:89-94) on the buffer of a serialized file.
Init ==
    /\ build \in Builds
    /\ \E fx \in Fixtures :
          LET file == Files[fx]
          IN  /\ fixture = [fx |-> fx, metadata_size |-> file.metadata_size,
                            file_size |-> file.file_size, data_offset |-> file.data_offset,
                            placed |-> file.placed]
              /\ reader = [data |-> file.data, pos |-> 0, endianness |-> "Big"]
    /\ asset = <<>>
    /\ ret = [op |-> "new", arg |-> 0, start |-> [pos |-> 0, endianness |-> "Big"],
              ok |-> TRUE, err |-> NoErr, val |-> <<>>]
    /\ runs = <<>>
    /\ calls = 0

ReadHeader ==
    /\ Running
    /\ Returns("read_header", 0, Call("read_header", reader, <<>>))
    /\ runs' = <<>>
    /\ calls' = calls + 1
    /\ UNCHANGED <<build, fixture, asset>>

\* `let asset = ...?`
Binds(r) == asset' = IF r.ok THEN <<r.val>> ELSE asset

Loads(r) == Returns("read_asset_info", 0, r) /\ Binds(r)

\* `let asset = reader.read_asset_info()?`
ReadAssetInfo ==
    /\ Running
    /\ Loads(Call("read_asset_info", reader, <<>>))
    /\ runs' = <<>>
    /\ calls' = calls + 1
    /\ UNCHANGED <<build, fixture>>

SetEndianness(endianness) ==
    /\ Running
    /\ reader' = set_endianness(reader, endianness)
    /\ ret' = Called("set_endianness", IF endianness = "Big" THEN 1 ELSE 0, Ok(reader, <<>>))
    /\ runs' = <<>>
    /\ calls' = calls + 1
    /\ UNCHANGED <<build, fixture, asset>>

\* reader.seek(SeekFrom::Start(0))
Rewind ==
    /\ Running
    /\ Returns("seek", 0, seek_start(reader, 0))
    /\ runs' = <<>>
    /\ calls' = calls + 1
    /\ UNCHANGED <<build, fixture, asset>>

Align ==
    /\ Running
    /\ Returns("align", 0, Call("align", reader, <<>>))
    /\ runs' = <<>>
    /\ calls' = calls + 1
    /\ UNCHANGED <<build, fixture, asset>>

\* reader.seek_to_object(&asset.objects[i - 1])
SeekToObject(i) ==
    /\ Running
    /\ asset # <<>>
    /\ i \in 1..Len(asset[1].objects)
    /\ Returns("seek_to_object", i, Call("seek_to_object", reader, <<asset[1].objects[i]>>))
    /\ calls' = calls + 1
    /\ UNCHANGED <<build, fixture, asset, runs>>

\* What the caller notes of a decode made right after seek_to_object.
Outcome(kind, r) ==
    [obj |-> asset[1].objects[ret.arg], index |-> ret.arg, kind |-> kind,
     version |-> asset[1].metadata.unity_version, before |-> reader.endianness,
     ok |-> r.ok, err |-> r.err, val |-> r.val, pos |-> r.rd.pos,
     after |-> r.rd.endianness]

Noted(kind, r) ==
    IF ret.op # "seek_to_object" THEN <<>>
    ELSE IF runs # <<>> /\ runs[Len(runs)].index = ret.arg /\ runs[Len(runs)].kind = kind
    THEN <<runs[Len(runs)], Outcome(kind, r)>>
    ELSE <<Outcome(kind, r)>>

\* A decode returns, and the caller notes it.
Decodes(op, kind, r) == Returns(op, ret.arg, r) /\ runs' = Noted(kind, r)

\* UnityMaterial::deserialize(&mut reader, &asset)
DeserializeMaterial ==
    /\ Running
    /\ asset # <<>>
    /\ Decodes("UnityMaterial::deserialize", "Material",
               Call("UnityMaterial_deserialize", reader, <<asset[1]>>))
    /\ calls' = calls + 1
    /\ UNCHANGED <<build, fixture, asset>>

\* UnityShader::deserialize(&mut reader, &asset)
DeserializeShader ==
    /\ Running
    /\ asset # <<>>
    /\ Decodes("UnityShader::deserialize", "Shader",
               Call("UnityShader_deserialize", reader, <<asset[1]>>))
    /\ calls' = calls + 1
    /\ UNCHANGED <<build, fixture, asset>>

Next ==
    \/ ReadHeader
    \/ ReadAssetInfo
    \/ \E endianness \in {"Big", "Little"} : SetEndianness(endianness)
    \/ Rewind
    \/ Align
    \/ \E i \in 1..2 : SeekToObject(i)
    \/ DeserializeMaterial
    \/ DeserializeShader

Spec == Init /\ [][Next]_vars

(***************************************************************************)
(* Arrays on their own: a reader that set_endianness and seek have placed  *)
(* at a serialized array, decoded with every element type.                 *)
(***************************************************************************)
MaxCount == 3      \* the arrays are written with -2..MaxCount as their count

ArrayElems == <<P("u8"), P("i32"), Array(P("u8"))>>

ArrayDescs ==
    {[elem |-> elem, count |-> count, pad |-> pad, little |-> little, calls |-> MaxCalls - 3] :
        elem \in 1..Len(ArrayElems), count \in (0 - 2)..MaxCount, pad \in 0..3,
        little \in BOOLEAN}

\* The array of d behind d.pad bytes: an inner array is as long as the outer.
ArrayInput(d) ==
    Emit("Gen", <<Zeros(d.pad), Array(ArrayElems[d.elem]), "xs", [counts |-> [xs |-> d.count], strlen |-> NoKnobs, ints |-> NoKnobs], ByteOrder(d)>>)

ArrayInputs == [d \in ArrayDescs |-> ArrayInput(d)]

InitArray ==
    /\ build \in Builds
    /\ \E d \in ArrayDescs :
          /\ fixture = [fx |-> d, val |-> ArrayInputs[d].val]
          /\ reader = [data |-> ArrayInputs[d].bytes, pos |-> d.pad, endianness |-> ByteOrder(d)]
    /\ asset = <<>>
    /\ ret = [op |-> "new", arg |-> 0, start |-> [pos |-> 0, endianness |-> "Big"],
              ok |-> TRUE, err |-> NoErr, val |-> <<>>]
    /\ runs = <<>>
    /\ calls = 0

\* T::deserialize_array(&mut reader, &asset), T being ArrayElems[i]
DeserializeArray(i) ==
    /\ Running
    /\ Returns("deserialize_array", i, Call("deserialize_array", reader, <<ArrayElems[i]>>))
    /\ runs' = <<>>
    /\ calls' = calls + 1
    /\ UNCHANGED <<build, fixture, asset>>

NextArray == \E i \in 1..Len(ArrayElems) : DeserializeArray(i)

SpecArray == InitArray /\ [][NextArray]_vars

(***************************************************************************)
(* The enum mappings on their own: each applied to a discriminant.         *)
(***************************************************************************)
MaxDiscriminant == 33    \* the discriminants are -3..MaxDiscriminant

InitEnum ==
    /\ build \in Builds
    /\ \E value \in (0 - 3)..MaxDiscriminant :
          fixture = [fx |-> [value |-> value, calls |-> MaxCalls - 3]]
    /\ reader = [data |-> <<>>, pos |-> 0, endianness |-> "Big"]
    /\ asset = <<>>
    /\ ret = [op |-> "new", arg |-> 0, start |-> [pos |-> 0, endianness |-> "Big"],
              ok |-> TRUE, err |-> NoErr, val |-> <<>>]
    /\ runs = <<>>
    /\ calls = 0

Mapped(op, value, variant, msg) ==
    /\ ret' = Called(op, value, ReadEnum(Ok(reader, value), variant, msg))
    /\ calls' = calls + 1
    /\ UNCHANGED <<reader, build, fixture, asset, runs>>

\* UnityShaderSerializedPass::get_pass_type(value)
GetPassType ==
    /\ Running
    /\ Mapped("get_pass_type", fixture.fx.value, get_pass_type(fixture.fx.value),
              "panic: unrecognized pass type")

\* UnityShaderSerializedShaderState::get_fog_mode(value)
GetFogMode ==
    /\ Running
    /\ Mapped("get_fog_mode", fixture.fx.value, get_fog_mode(fixture.fx.value),
              "panic: unrecognized fog mode")

\* UnityShaderSerializedSubProgram::get_gpu_program_type(value), value a u8
GetGpuProgramType ==
    /\ Running
    /\ fixture.fx.value \in 0..255
    /\ Mapped("get_gpu_program_type", fixture.fx.value,
              get_gpu_program_type(fixture.fx.value), "panic: unrecognized GPU program type")

NextEnum == GetPassType \/ GetFogMode \/ GetGpuProgramType

SpecEnum == InitEnum /\ [][NextEnum]_vars

(***************************************************************************)
(* The byte reader on its own: its reads and seeks, from any position of   *)
(* short buffers.  A buffer is length prefixes followed by a few bytes, or *)
(* the first bytes of a header.                                            *)
(***************************************************************************)
MaxPayload == 5    \* the length prefixes are followed by 0..MaxPayload bytes
MaxPast == 2       \* the seeks reach up to MaxPast bytes past the longest buffer

\* Length prefixes: small ones, 2^31 - 1, 2^31 and 2^32 - 1 (-1 as an i32).
Prefixes ==
    <<<<0, 0, 0, 0>>, <<0, 0, 0, 1>>, <<0, 0, 0, 3>>, <<0, 0, 0, 4>>, <<0, 0, 0, 6>>,
      <<127, 255, 255, 255>>, <<128, 0, 0, 0>>, <<255, 255, 255, 255>>>>

\* The i-th byte after the prefixes: every third one 0, others above 127.
PayloadByte(i) == IF i % 3 = 0 THEN 0 ELSE (29 + 43 * i) % 256

Payload(n) == [i \in 1..n |-> PayloadByte(i)]

PrefixedBuffers ==
    {[kind |-> "prefixed", little |-> little, calls |-> 2,
      data |-> Put(Prefixes[i], IF little THEN "Little" ELSE "Big") \o Payload(n)] :
        i \in 1..Len(Prefixes), n \in 0..MaxPayload, little \in BOOLEAN}
    \cup {[kind |-> "blob", little |-> FALSE, calls |-> 1,
           data |-> Prefixes[i] \o Prefixes[j] \o Payload(n)] :
            i \in {1, 2, 8}, j \in {1, 3, 6, 8}, n \in {0, 2, 24, 27}}

\* The first n bytes of the header of a file of format ver whose fields
\* hold sizes.
HeaderStart(ver, little, sizes, n) ==
    LET h == FileHeader([ver |-> ver, little |-> little, ext_native |-> FALSE],
                        sizes.metadata_size, sizes.file_size, sizes.data_offset)
    IN  SubSeq(h, 1, IF n < Len(h) THEN n ELSE Len(h))

HeaderSizes ==
    {[metadata_size |-> 16, file_size |-> 64, data_offset |-> 32],
     [metadata_size |-> 16, file_size |-> 64, data_offset |-> 64],
     [metadata_size |-> 16, file_size |-> 64, data_offset |-> 128]}

HeaderBuffers ==
    {[kind |-> "header", little |-> little, calls |-> 2,
      data |-> HeaderStart(ver, little, sizes, n)] :
        ver \in {<<0, 0, 0, 16>>, <<0, 0, 0, 17>>, <<0, 0, 0, 22>>}, little \in BOOLEAN,
        sizes \in HeaderSizes, n \in {11, 12, 16, 17, 19, 20, 47, 48}}

ByteBuffers == PrefixedBuffers \cup HeaderBuffers

\* The reads of a fixed number of bytes, and that number.
FixedReads ==
    [read_u8 |-> 1, read_bool |-> 1, read_u16 |-> 2, read_i16 |-> 2, read_i32 |-> 4,
     read_u32 |-> 4, read_f32 |-> 4, read_i64 |-> 8, read_u64 |-> 8]

\* The reads of a u32 count and as many elements, and the size of an element.
CountedReads == [read_byte_array |-> 1, read_char_array |-> 1, read_u32_array |-> 4]

\* The arguments of read_bytes: usize words.
ByteCounts ==
    <<Zeros(8), BytesOfNat(1, 8), BytesOfNat(4, 8), BytesOfNat(MaxPayload + 5, 8),
      ZeroExtend(<<127, 255, 255, 255>>, 8), ZeroExtend(<<128, 0, 0, 0>>, 8)>>

\* The targets of a seek from the start.
SeekTargets == 0..(8 + MaxPayload + MaxPast)

\* The byte_start of the objects sought: in reach, far, and negative.
ByteStarts ==
    <<Zeros(8), BytesOfNat(3, 8), BytesOfNat(8 + MaxPayload + MaxPast, 8),
      <<0, 0, 0, 1, 0, 0, 0, 0>>, Ones(8)>>

\* AssetReader::new (reader.rs:89-94) on one of the buffers.
InitBytes ==
    /\ build \in Builds
    /\ \E b \in ByteBuffers :
          /\ fixture = [fx |-> b]
          /\ reader = [data |-> b.data, pos |-> 0, endianness |-> "Big"]
    /\ asset = <<>>
    /\ ret = [op |-> "new", arg |-> 0, start |-> [pos |-> 0, endianness |-> "Big"],
              ok |-> TRUE, err |-> NoErr, val |-> <<>>]
    /\ runs = <<>>
    /\ calls = 0

\* What every call of the byte reader leaves alone.
Counted ==
    /\ runs' = <<>>
    /\ calls' = calls + 1
    /\ UNCHANGED <<build, fixture, asset>>

\* reader.read_u8(), .., reader.read_u64()
ReadFixed(op) ==
    /\ Running
    /\ Returns(op, FixedReads[op], Call(op, reader, <<>>))
    /\ Counted

\* reader.read_byte_array(), read_char_array(), read_u32_array()
ReadCounted(op) ==
    /\ Running
    /\ Returns(op, CountedReads[op], Call(op, reader, <<>>))
    /\ Counted

\* reader.read_bytes(n), n being ByteCounts[i]
ReadBytes(i) ==
    /\ Running
    /\ Returns("read_bytes", i, Call("read_bytes", reader, <<ByteCounts[i]>>))
    /\ Counted

\* reader.read_null_terminated_string()
ReadNullTerminatedString ==
    /\ Running
    /\ Returns("read_null_terminated_string", 0,
               Call("read_null_terminated_string", reader, <<>>))
    /\ Counted

\* reader.seek(SeekFrom::Start(n))
Seek(n) ==
    /\ Running
    /\ Returns("seek", n, seek_start(reader, n))
    /\ Counted

\* reader.seek_to_object(&obj), obj.byte_start being ByteStarts[i]
SeekToByteStart(i) ==
    /\ Running
    /\ Returns("seek_to_object", i,
               Call("seek_to_object", reader, <<[byte_start |-> ByteStarts[i]]>>))
    /\ Counted

\* reader.read_type_tree_blob(version)
ReadTypeTreeBlob(version) ==
    /\ Running
    /\ fixture.fx.kind = "blob"
    /\ Returns("read_type_tree_blob", version,
               Call("read_type_tree_blob", reader, <<version>>))
    /\ Counted

NextBytes ==
    \/ \E op \in DOMAIN FixedReads : ReadFixed(op)
    \/ \E op \in DOMAIN CountedReads : ReadCounted(op)
    \/ \E i \in 1..Len(ByteCounts) : ReadBytes(i)
    \/ ReadNullTerminatedString
    \/ \E n \in SeekTargets : Seek(n)
    \/ \E i \in 1..Len(ByteStarts) : SeekToByteStart(i)
    \/ \E version \in {18, 19} : ReadTypeTreeBlob(version)
    \/ \E endianness \in {"Big", "Little"} : SetEndianness(endianness)
    \/ Align
    \/ ReadHeader

SpecBytes == InitBytes /\ [][NextBytes]_vars

(***************************************************************************)
(* The object table on its own: read_object and read_script_types on a     *)
(* buffer that holds, behind four bytes of padding, one object record and  *)
(* a table of one script type.                                             *)
(***************************************************************************)
\* The path ids and script identifiers on disk, i64 words: one within 32
\* bits, two that differ from it by multiples of 2^32, a negative one and
\* one whose low half has its top bit set.
PathIds ==
    <<<<0, 0, 0, 0, 0, 0, 1, 21>>, <<0, 0, 0, 1, 0, 0, 1, 21>>,
      <<255, 255, 255, 254, 0, 0, 1, 21>>, <<255, 255, 255, 255, 255, 255, 255, 48>>,
      <<0, 0, 0, 0, 128, 0, 0, 0>>>>

\* The offsets stored in the record, i64 words; a format below 22 stores the
\* low 32 bits.  The last one overflows an i64 when data_offset is added.
StoredOffsets ==
    <<BytesOfNat(64, 8), <<0, 0, 0, 0, 255, 255, 255, 240>>,
      <<127, 255, 255, 255, 255, 255, 255, 240>>>>

ObjectDataOffset == BytesOfNat(32, 8)

ObjectDescs ==
    {[version |-> version, little |-> little, path |-> path, offset |-> offset,
      type_id |-> type_id, calls |-> 3] :
        version \in {17, 21, 22}, little \in BOOLEAN, path \in 1..Len(PathIds),
        offset \in 1..Len(StoredOffsets), type_id \in {0 - 1, 0, 1, 2}}

ObjectBytes(d) ==
    LET e == ByteOrder(d)
        stored == StoredOffsets[d.offset]
    IN  Zeros(4) \o Put(PathIds[d.path], e)
        \o Put(IF d.version = 22 THEN stored ELSE LowBytes(stored, 4), e)
        \o Put(BytesOfNat(100, 4), e) \o Put(BytesOfInt(d.type_id, 4), e)
        \o Put(BytesOfInt(1, 4), e) \o Put(BytesOfInt(7, 4), e) \o Put(PathIds[d.path], e)

\* Where the table of script types of d starts.
ScriptStart(d) == IF d.version = 22 THEN 28 ELSE 24

\* The header and the metadata read_object is given.
HeaderOf(d) ==
    [metadata_size |-> Zeros(8), file_size |-> BytesOfNat(4096, 8), version |-> d.version,
     data_offset |-> ObjectDataOffset, endianness |-> ByteOrder(d)]

MetadataOf(d) == [types |-> <<[class_id |-> 21], [class_id |-> 48]>>]

InitObject ==
    /\ build \in Builds
    /\ \E d \in ObjectDescs :
          /\ fixture = [fx |-> d]
          /\ reader = [data |-> ObjectBytes(d), pos |-> 0, endianness |-> "Big"]
    /\ asset = <<>>
    /\ ret = [op |-> "new", arg |-> 0, start |-> [pos |-> 0, endianness |-> "Big"],
              ok |-> TRUE, err |-> NoErr, val |-> <<>>]
    /\ runs = <<>>
    /\ calls = 0

\* reader.read_object(&hdr, &metadata)
ReadObject ==
    /\ Running
    /\ Returns("read_object", 0,
               Call("read_object", reader, <<HeaderOf(fixture.fx), MetadataOf(fixture.fx)>>))
    /\ Counted

\* reader.read_script_types()
ReadScriptTypes ==
    /\ Running
    /\ Returns("read_script_types", 0, Call("read_script_types", reader, <<>>))
    /\ Counted

NextObject ==
    \/ \E endianness \in {"Big", "Little"} : SetEndianness(endianness)
    \/ \E n \in {0, 1, 3, 4, 24, 28} : Seek(n)
    \/ ReadObject
    \/ ReadScriptTypes

SpecObject == InitObject /\ [][NextObject]_vars

(***************************************************************************)
(* Property sheets on their own: a reader on a serialized                  *)
(* UnityPropertySheet, decoded, and the sheet read through its accessors.  *)
(***************************************************************************)
MaxPairs == 2      \* the maps of the sheets have 0..MaxPairs pairs

SheetMaps == <<"tex_envs", "floats", "colors">>

\* The key of pair i of map m of a sheet: m characters.
SheetKey(m, i) == [j \in 1..m |-> 64 + 16 * m + i]

SheetF32(m, i, j) == <<63, m, i, j>>

\* The value of pair i of map m of a sheet.
SheetVal(m, i) ==
    CASE m = 1 -> [texture |-> [file_id |-> i, path_id |-> <<0, 0, 0, 0, 0, 0, 1, i>>],
                   scale |-> [x |-> SheetF32(1, i, 1), y |-> SheetF32(1, i, 2)],
                   offset |-> [x |-> SheetF32(1, i, 3), y |-> SheetF32(1, i, 4)]]
      [] m = 2 -> SheetF32(2, i, 0)
      [] OTHER -> [r |-> SheetF32(3, i, 1), g |-> SheetF32(3, i, 2),
                   b |-> SheetF32(3, i, 3), a |-> SheetF32(3, i, 4)]

\* The bytes of that value in byte order e.
SheetValBytes(m, i, e) ==
    CASE m = 1 -> Put(BytesOfInt(i, 4), e) \o Put(<<0, 0, 0, 0, 0, 0, 1, i>>, e)
                  \o Put(SheetF32(1, i, 1), e) \o Put(SheetF32(1, i, 2), e)
                  \o Put(SheetF32(1, i, 3), e) \o Put(SheetF32(1, i, 4), e)
      [] m = 2 -> Put(SheetF32(2, i, 0), e)
      [] OTHER -> Put(SheetF32(3, i, 1), e) \o Put(SheetF32(3, i, 2), e)
                  \o Put(SheetF32(3, i, 3), e) \o Put(SheetF32(3, i, 4), e)

RECURSIVE SheetPairs(_, _, _, _)
\* The pairs i..n of map m, one after the other: key (length, characters,
\* padding to a multiple of 4), value.
SheetPairs(m, i, n, e) ==
    IF i > n THEN <<>>
    ELSE Put(BytesOfNat(m, 4), e) \o SheetKey(m, i) \o Zeros(4 - m)
         \o SheetValBytes(m, i, e) \o SheetPairs(m, i + 1, n, e)

\* A sheet with counts[m] pairs in map m: the three maps, each its count
\* and its pairs, without the last `cut` bytes.
SheetDescs ==
    [counts : [1..3 -> 0..MaxPairs], little : BOOLEAN, cut : 0..1, calls : {4}]

SheetBytes(d) ==
    LET e == ByteOrder(d)
        all == Put(BytesOfNat(d.counts[1], 4), e) \o SheetPairs(1, 1, d.counts[1], e)
               \o Put(BytesOfNat(d.counts[2], 4), e) \o SheetPairs(2, 1, d.counts[2], e)
               \o Put(BytesOfNat(d.counts[3], 4), e) \o SheetPairs(3, 1, d.counts[3], e)
    IN  SubSeq(all, 1, Len(all) - d.cut)

SheetInputs == [d \in SheetDescs |-> SheetBytes(d)]

InitSheet ==
    /\ build \in Builds
    /\ \E d \in SheetDescs :
          /\ fixture = [fx |-> d]
          /\ reader = [data |-> SheetInputs[d], pos |-> 0, endianness |-> "Big"]
    /\ asset = <<>>
    /\ ret = [op |-> "new", arg |-> 0, start |-> [pos |-> 0, endianness |-> "Big"],
              ok |-> TRUE, err |-> NoErr, val |-> <<>>]
    /\ runs = <<>>
    /\ calls = 0

\* The caller keeps the sheet a decode returns.
Keeps(r) ==
    /\ Returns("UnityPropertySheet::deserialize", 0, r)
    /\ runs' = IF r.ok
               THEN <<[kind |-> "PropertySheet", val |-> r.val,
                       start |-> [pos |-> reader.pos, endianness |-> reader.endianness]]>>
               ELSE runs

\* UnityPropertySheet::deserialize(&mut reader, &asset)
DeserializePropertySheet ==
    /\ Running
    /\ Keeps(Call("Deserialize", reader, <<UnityPropertySheet>>))
    /\ calls' = calls + 1
    /\ UNCHANGED <<build, fixture, asset>>

\* v[idx] of a Vec: the element, or the panic of an index out of bounds.
Index(v, idx) ==
    IF idx < Len(v) THEN [ok |-> TRUE, val |-> v[idx + 1]] ELSE [ok |-> FALSE, val |-> <<>>]

\* Some(x) of what indexing gave.
SomeOf(x) == [ok |-> x.ok, val |-> IF x.ok THEN <<x.val>> ELSE <<>>]

\* material.rs:108-110
get_tex_env_count(self) == [ok |-> TRUE, val |-> Len(self.tex_envs.keys)]

\* material.rs:112-114
get_tex_env_name(self, idx) == Index(self.tex_envs.keys, idx)

\* material.rs:116-118
get_tex_env(self, idx) == SomeOf(Index(self.tex_envs.vals, idx))

\* material.rs:124-126
get_float_count(self) == [ok |-> TRUE, val |-> Len(self.floats.keys)]

\* material.rs:128-130
get_float_name(self, idx) == Index(self.floats.keys, idx)

\* material.rs:132-134
get_float(self, idx) == Index(self.floats.vals, idx)

\* material.rs:136-138
get_color_count(self) == [ok |-> TRUE, val |-> Len(self.colors.keys)]

\* material.rs:140-142
get_color_name(self, idx) == Index(self.colors.keys, idx)

\* material.rs:144-146
get_color(self, idx) == Index(self.colors.vals, idx)

Counts == {"get_tex_env_count", "get_float_count", "get_color_count"}

Names == {"get_tex_env_name", "get_float_name", "get_color_name"}

Values == {"get_tex_env", "get_float", "get_color"}

\* The accessor op of the sheet self, by name.
Accessor(op, self, idx) ==
    CASE op = "get_tex_env_count" -> get_tex_env_count(self)
      [] op = "get_tex_env_name" -> get_tex_env_name(self, idx)
      [] op = "get_tex_env" -> get_tex_env(self, idx)
      [] op = "get_float_count" -> get_float_count(self)
      [] op = "get_float_name" -> get_float_name(self, idx)
      [] op = "get_float" -> get_float(self, idx)
      [] op = "get_color_count" -> get_color_count(self)
      [] op = "get_color_name" -> get_color_name(self, idx)
      [] op = "get_color" -> get_color(self, idx)

\* An accessor returns, or panics; the reader has no part in it.
Gets(op, idx, x) ==
    ret' = Called(op, idx, IF x.ok THEN Ok(reader, x.val)
                           ELSE Panic("panic: index out of bounds", idx, reader))

\* sheet.get_*_count(), sheet.get_*_name(idx), sheet.get_*(idx)
Access(op, idx) ==
    /\ Running
    /\ runs # <<>>
    /\ Gets(op, idx, Accessor(op, runs[1].val, idx))
    /\ calls' = calls + 1
    /\ UNCHANGED <<reader, build, fixture, asset, runs>>

NextSheet ==
    \/ \E endianness \in {"Big", "Little"} : SetEndianness(endianness)
    \/ DeserializePropertySheet
    \/ \E op \in Counts : Access(op, 0)
    \/ \E op \in Names \cup Values, idx \in 0..MaxPairs : Access(op, idx)

SpecSheet == InitSheet /\ [][NextSheet]_vars

(***************************************************************************)
(* Types on their own: a reader on one SerializedType record, written for  *)
(* a format version with its type tree in the blob encoding, in the        *)
(* recursive encoding, or without a type tree ("none": the record ends     *)
(* where the tree would start; "bare": what follows a tree in the formats  *)
(* from 21 on is written where the tree would start).                      *)
(***************************************************************************)
TypeVersions == {9, 10, 11, 12, 13, 16, 17, 19, 21, 22}

TypeDescs ==
    [version : TypeVersions, tree : {"blob", "recursive", "none", "bare"},
     is_ref_type : BOOLEAN,
     little : BOOLEAN, class_id : {21, 114}, calls : {2}]

\* A node of the blob encoding: version, level, type_flags, the two string
\* offsets, byte_size, index, meta_flag, and the hash of the formats from 19.
BlobNode(v, e, level) ==
    Put(BytesOfInt(1, 2), e) \o <<level, 0>> \o Put(<<0, 0, 0, 0>>, e)
    \o Put(<<0, 0, 0, 2>>, e) \o Put(BytesOfInt(4, 4), e) \o Put(BytesOfInt(level, 4), e)
    \o Put(BytesOfInt(0, 4), e) \o (IF v >= 19 THEN Zeros(8) ELSE <<>>)

\* Two nodes and a string buffer of four bytes.
BlobTree(v, e) ==
    Put(BytesOfInt(2, 4), e) \o Put(BytesOfInt(4, 4), e)
    \o BlobNode(v, e, 0) \o BlobNode(v, e, 1) \o <<65, 0, 98, 0>>

\* A node of the recursive encoding: type, name, byte_size, index,
\* type_flags, version, meta_flag, and the number of its children.
RecursiveNode(e, children) ==
    <<65, 0, 98, 0>> \o Put(BytesOfInt(4, 4), e) \o Put(BytesOfInt(0, 4), e)
    \o Put(BytesOfInt(0, 4), e) \o Put(BytesOfInt(1, 4), e) \o Put(BytesOfInt(0, 4), e)
    \o Put(BytesOfInt(children, 4), e)

\* A node with one child.
RecursiveTree(e) == RecursiveNode(e, 1) \o RecursiveNode(e, 0)

TypeRecord(d) ==
    LET e == ByteOrder(d)
        v == d.version
    IN  Put(BytesOfInt(d.class_id, 4), e)
        \o (IF v >= 16 THEN <<0>> ELSE <<>>)
        \o (IF v >= 17 THEN Put(BytesOfInt(IF d.is_ref_type THEN 0 ELSE 0 - 1, 2), e) ELSE <<>>)
        \o (IF v >= 13 /\ ((d.is_ref_type /\ v >= 17) \/ d.class_id = 114)
            THEN [i \in 1..16 |-> 16 + i] ELSE <<>>)
        \o (IF v >= 13 THEN [i \in 1..16 |-> 32 + i] ELSE <<>>)
        \o (CASE d.tree = "blob" -> BlobTree(v, e)
              [] d.tree = "recursive" -> RecursiveTree(e)
              [] OTHER -> <<>>)
        \o (IF d.tree = "none" \/ v < 21 THEN <<>>
            ELSE IF d.is_ref_type THEN <<67, 0, 78, 0, 65, 0>>
            ELSE Put(BytesOfNat(1, 4), e) \o Put(<<0, 0, 1, 5>>, e))

\* The length of the record up to where its type tree starts.
TypeHeadLen(d) ==
    4 + (IF d.version >= 16 THEN 1 ELSE 0) + (IF d.version >= 17 THEN 2 ELSE 0)
    + (IF d.version >= 13 /\ ((d.is_ref_type /\ d.version >= 17) \/ d.class_id = 114)
       THEN 16 ELSE 0)
    + (IF d.version >= 13 THEN 16 ELSE 0)

TypeInputs == [d \in TypeDescs |-> TypeRecord(d)]

InitType ==
    /\ build \in Builds
    /\ \E d \in TypeDescs :
          /\ fixture = [fx |-> d]
          /\ reader = [data |-> TypeInputs[d], pos |-> 0, endianness |-> "Big"]
    /\ asset = <<>>
    /\ ret = [op |-> "new", arg |-> 0, start |-> [pos |-> 0, endianness |-> "Big"],
              ok |-> TRUE, err |-> NoErr, val |-> <<>>]
    /\ runs = <<>>
    /\ calls = 0

\* self.read_unity_type(is_ref_type, enable_type_tree, version), with the
\* format version the record was written for.
ReadUnityType(is_ref_type, enable_type_tree) ==
    /\ Running
    /\ Returns("read_unity_type",
               [is_ref_type |-> is_ref_type, enable_type_tree |-> enable_type_tree,
                version |-> fixture.fx.version],
               Call("read_unity_type", reader,
                    <<is_ref_type, enable_type_tree, fixture.fx.version>>))
    /\ Counted

NextType ==
    \/ \E endianness \in {"Big", "Little"} : SetEndianness(endianness)
    \/ \E is_ref_type \in BOOLEAN, enable_type_tree \in BOOLEAN :
          ReadUnityType(is_ref_type, enable_type_tree)

SpecType == InitType /\ [][NextType]_vars

(***************************************************************************)
(* Recursive type trees on their own: a reader on the nodes of a tree, and *)
(* read_type_tree run one turn of its loop at a time.  While it runs, and  *)
(* after it has returned, runs holds its frame: the version it was called  *)
(* with, where it started, its level_stack and type_tree, and the          *)
(* children_count each turn read.                                          *)
(***************************************************************************)
MaxNodes == 3      \* the buffers hold 1..MaxNodes nodes

\* The children_count of a node: none, negative, some, more than any buffer has.
ChildrenCounts == {0 - 1, 0, 1, 2, 2147483647}

\* The children_count of the nodes of a buffer, in the order of the file.
TreeShapes == UNION {[1..n -> ChildrenCounts] : n \in 1..MaxNodes}

TreeDescs == [shape : TreeShapes, version : {2, 3, 11}, calls : {2}]

\* A node as read_type_tree of `version` reads it, with children_count c.
TreeNodeBytes(version, c) ==
    <<65, 0, 0>> \o BytesOfInt(4, 4)
    \o (IF version = 2 THEN BytesOfInt(1, 4) ELSE <<>>)
    \o (IF version # 3 THEN BytesOfInt(0, 4) ELSE <<>>)
    \o BytesOfInt(0, 4) \o BytesOfInt(1, 4)
    \o (IF version # 3 THEN BytesOfInt(0, 4) ELSE <<>>)
    \o BytesOfInt(c, 4)

RECURSIVE TreeBytes(_, _, _)
TreeBytes(version, shape, i) ==
    IF i > Len(shape) THEN <<>>
    ELSE TreeNodeBytes(version, shape[i]) \o TreeBytes(version, shape, i + 1)

TreeInputs == [d \in TreeDescs |-> TreeBytes(d.version, d.shape, 1)]

InitTree ==
    /\ build \in Builds
    /\ \E d \in TreeDescs :
          /\ fixture = [fx |-> d]
          /\ reader = [data |-> TreeInputs[d], pos |-> 0, endianness |-> "Big"]
    /\ asset = <<>>
    /\ ret = [op |-> "new", arg |-> 0, start |-> [pos |-> 0, endianness |-> "Big"],
              ok |-> TRUE, err |-> NoErr, val |-> <<>>]
    /\ runs = <<>>
    /\ calls = 0

\* read_type_tree is between its entry and its return.
InReadTypeTree == ret.op = "read_type_tree: loop"

\* self.read_type_tree(version): the entry, up to the loop (reader.rs:377-379).
EnterReadTypeTree ==
    /\ Running
    /\ ~InReadTypeTree
    /\ ret' = Called("read_type_tree: loop", fixture.fx.version, Ok(reader, <<>>))
    /\ runs' = <<[version |-> fixture.fx.version,
                  start |-> [pos |-> reader.pos, endianness |-> reader.endianness],
                  level_stack |-> << <<0, 1>> >>, type_tree |-> <<>>, children |-> <<>>]>>
    /\ calls' = calls + 1
    /\ UNCHANGED <<reader, build, fixture, asset>>

\* A turn ends: with the node pushed, or with the `?` that leaves the function.
TurnEnds(r) ==
    /\ reader' = r.rd
    /\ IF r.ok
       THEN /\ runs' = <<[runs[1] EXCEPT !.level_stack = r.val.level_stack,
                                         !.type_tree = Append(@, r.val.level),
                                         !.children = Append(@, r.val.children_count)]>>
            /\ UNCHANGED ret
       ELSE /\ ret' = [op |-> "read_type_tree", arg |-> runs[1].version,
                       start |-> runs[1].start, ok |-> FALSE, err |-> r.err, val |-> <<>>]
            /\ UNCHANGED runs

\* One turn of `while !level_stack.is_empty()` (reader.rs:380-416).
TypeTreeLoopTurn ==
    /\ InReadTypeTree
    /\ runs[1].level_stack # <<>>
    /\ TurnEnds(Call("TypeTreeTurn", reader, <<runs[1].version, runs[1].level_stack>>))
    /\ UNCHANGED <<build, fixture, asset, calls>>

\* `Ok(type_tree)` (reader.rs:417), the stack being empty.
ReturnTypeTree ==
    /\ InReadTypeTree
    /\ runs[1].level_stack = <<>>
    /\ ret' = [op |-> "read_type_tree", arg |-> runs[1].version, start |-> runs[1].start,
               ok |-> TRUE, err |-> NoErr, val |-> runs[1].type_tree]
    /\ UNCHANGED <<reader, build, fixture, asset, runs, calls>>

NextTree ==
    \/ EnterReadTypeTree
    \/ TypeTreeLoopTurn
    \/ ReturnTypeTree

SpecTree == InitTree /\ [][NextTree]_vars

\* The loop has a turn to make: what ENABLED <<TypeTreeLoopTurn>>_vars is, a
\* turn changing the frame or leaving the function.
TurnEnabled == InReadTypeTree /\ runs[1].level_stack # <<>>

\* WF_vars(TypeTreeLoopTurn) with TurnEnabled for its ENABLED.
TurnFairness == []<>(~TurnEnabled) \/ []<><<TypeTreeLoopTurn>>_vars

\* The thread that runs read_type_tree keeps running it.
SpecTreeFair == SpecTree /\ TurnFairness /\ WF_vars(ReturnTypeTree)

(***************************************************************************)
(* The parts of a shader whose layout turns on the engine version, each on *)
(* its own: a reader on the bytes of one constant buffer, one serialized   *)
(* program or one sub-program, and an AssetInfo that holds an engine       *)
(* version.  The bytes are written in a layout of their own, which may or  *)
(* may not be the one of that engine version; the caller decodes the part  *)
(* the buffer was written as.                                              *)
(***************************************************************************)
\* Engine versions and the layout each has: struct_params and samplers
\* written or not, the partial-constant-buffer fields written or not, the
\* keyword indices ("bare": one array, no padding; "single": one array,
\* padded; "split": global and local arrays, each padded), the
\* shader_requirements ("none", "i32", "i64").
PartRows ==
    { [v |-> r[1], struct_params |-> r[2], samplers |-> r[3], partial |-> r[4],
       keywords |-> r[5], requirements |-> r[6]] : r \in {
        << <<5, 6, 0, 2, 1>>,     FALSE, FALSE, FALSE, "bare",   "none" >>,
        << <<2017, 0, 0, 1, 3>>,  FALSE, FALSE, FALSE, "bare",   "none" >>,
        << <<2017, 1, 0, 2, 1>>,  FALSE, TRUE,  FALSE, "single", "none" >>,
        << <<2017, 2, 0, 2, 1>>,  FALSE, TRUE,  FALSE, "single", "i32" >>,
        << <<2017, 3, 0, 2, 1>>,  TRUE,  TRUE,  FALSE, "single", "i32" >>,
        << <<2018, 4, 36, 2, 1>>, TRUE,  TRUE,  FALSE, "single", "i32" >>,
        << <<2019, 0, 0, 0, 1>>,  TRUE,  TRUE,  FALSE, "single", "i32" >>,
        << <<2019, 1, 0, 0, 1>>,  TRUE,  TRUE,  FALSE, "split",  "i32" >>,
        << <<2019, 4, 40, 2, 1>>, TRUE,  TRUE,  FALSE, "split",  "i32" >>,
        << <<2020, 3, 1, 2, 1>>,  TRUE,  TRUE,  FALSE, "split",  "i32" >>,
        << <<2020, 3, 2, 1, 1>>,  TRUE,  TRUE,  FALSE, "split",  "i32" >>,
        << <<2020, 3, 2, 2, 1>>,  TRUE,  TRUE,  TRUE,  "split",  "i32" >>,
        << <<2020, 4, 0, 2, 1>>,  TRUE,  TRUE,  TRUE,  "split",  "i32" >>,
        << <<2021, 0, 0, 0, 1>>,  TRUE,  TRUE,  FALSE, "split",  "i32" >>,
        << <<2021, 1, 0, 2, 1>>,  TRUE,  TRUE,  FALSE, "split",  "i64" >>,
        << <<2021, 1, 3, 2, 1>>,  TRUE,  TRUE,  FALSE, "split",  "i64" >>,
        << <<2021, 1, 4, 2, 1>>,  TRUE,  TRUE,  TRUE,  "split",  "i64" >>,
        << <<2021, 2, 0, 1, 1>>,  TRUE,  TRUE,  TRUE,  "split",  "i64" >>,
        << <<2021, 2, 0, 2, 1>>,  TRUE,  TRUE,  TRUE,  "single", "i64" >>,
        << <<2022, 3, 0, 2, 1>>,  TRUE,  TRUE,  TRUE,  "single", "i64" >> } }

\* The layouts a part may be written in.
PartLayouts ==
    [partial : BOOLEAN, keywords : {"bare", "single", "split"},
     requirements : {"none", "i32", "i64"}]

LayoutOf(row) ==
    [partial |-> row.partial, keywords |-> row.keywords, requirements |-> row.requirements]

Parts == {"UnityShaderConstantBuffer", "UnityShaderSerializedProgram",
          "UnityShaderSerializedSubProgram"}

\* A part of an engine version, written in a layout that differs from the
\* version's own in what the part holds, if at all.
PartDescs ==
    {d \in [row : PartRows, written : PartLayouts, part : Parts, little : BOOLEAN,
            calls : {2}] :
        /\ d.part = "UnityShaderConstantBuffer" =>
              /\ d.written.keywords = d.row.keywords
              /\ d.written.requirements = d.row.requirements
        /\ d.part = "UnityShaderSerializedSubProgram" => d.written.partial = d.row.partial}

\* The bytes of a constant buffer named 7 of size 16, no parameters, and the
\* value they hold.
ConstantBufferBytes(row, lay, e) ==
    Put(BytesOfInt(7, 4), e) \o Zeros(4) \o Zeros(4)
    \o (IF row.struct_params THEN Zeros(4) ELSE <<>>)
    \o Put(BytesOfInt(16, 4), e)
    \o (IF lay.partial THEN <<1, 170, 170, 170>> ELSE <<>>)

ConstantBufferValue(row, lay) ==
    [name_index |-> 7, matrix_params |-> <<>>, vector_params |-> <<>>,
     struct_params |-> IF row.struct_params THEN << <<>> >> ELSE <<>>,
     size |-> 16, is_partial_cb |-> IF lay.partial THEN <<TRUE>> ELSE <<>>]

\* Program parameters with nothing in them.
ParametersBytes(row) == Zeros(4 * 7) \o (IF row.samplers THEN Zeros(4) ELSE <<>>)

ParametersValue(row) ==
    [vector_params |-> <<>>, matrix_params |-> <<>>, texture_params |-> <<>>,
     buffer_params |-> <<>>, constant_buffers |-> <<>>,
     constant_buffer_bindings |-> <<>>, uav_params |-> <<>>,
     samplers |-> IF row.samplers THEN << <<>> >> ELSE <<>>]

KeywordsBytes(lay, e) ==
    LET one(x) == Put(BytesOfNat(1, 4), e) \o Put(BytesOfNat(x, 2), e)
    IN  CASE lay.keywords = "split" -> one(258) \o <<170, 170>> \o one(259) \o <<170, 170>>
          [] lay.keywords = "single" -> one(260) \o <<170, 170>>
          [] OTHER -> one(260)

RequirementsBytes(lay, e) ==
    CASE lay.requirements = "i64" -> Put(<<0, 0, 0, 1, 0, 0, 0, 2>>, e)
      [] lay.requirements = "i32" -> Put(BytesOfInt(0 - 2, 4), e)
      [] OTHER -> <<>>

\* The bytes of a sub-program with one channel and one keyword in each
\* array, and the value they hold.
SubProgramBytes(row, lay, e) ==
    Put(<<0, 0, 0, 3>>, e)
    \o Put(BytesOfInt(1, 4), e) \o <<1, 2, 170, 170>> \o Put(<<0, 0, 0, 5>>, e)
    \o KeywordsBytes(lay, e)
    \o <<2, 4>> \o (IF lay.keywords = "bare" THEN <<>> ELSE <<170, 170>>)
    \o ParametersBytes(row)
    \o RequirementsBytes(lay, e)

SubProgramValue(row, lay) ==
    [blob_index |-> <<0, 0, 0, 3>>,
     channels |-> [channels |-> <<[source |-> 1, target |-> 2]>>,
                   source_map |-> <<0, 0, 0, 5>>],
     global_keyword_indices |-> IF lay.keywords = "split" THEN << <<258>> >> ELSE <<>>,
     local_keyword_indices |-> IF lay.keywords = "split" THEN << <<259>> >> ELSE <<>>,
     keyword_indices |-> IF lay.keywords = "split" THEN <<>> ELSE << <<260>> >>,
     shader_hardware_tier |-> 2,
     gpu_program_type |-> "GLES3",
     parameters |-> <<ParametersValue(row)>>,
     shader_requirements |->
        CASE lay.requirements = "i64" -> << <<0, 0, 0, 1, 0, 0, 0, 2>> >>
          [] lay.requirements = "i32" -> << <<255, 255, 255, 255, 255, 255, 255, 254>> >>
          [] OTHER -> <<>>]

\* A serialized program of one sub-program.
ProgramBytes(row, lay, e) ==
    Put(BytesOfInt(1, 4), e) \o SubProgramBytes(row, lay, e)
    \o (IF lay.partial THEN ParametersBytes(row) ELSE <<>>)

ProgramValue(row, lay) ==
    [sub_programs |-> <<SubProgramValue(row, lay)>>,
     common_parameters |-> IF lay.partial THEN <<ParametersValue(row)>> ELSE <<>>]

PartBytes(part, row, lay, e) ==
    CASE part = "UnityShaderConstantBuffer" -> ConstantBufferBytes(row, lay, e)
      [] part = "UnityShaderSerializedProgram" -> ProgramBytes(row, lay, e)
      [] OTHER -> SubProgramBytes(row, lay, e)

PartValue(part, row, lay) ==
    CASE part = "UnityShaderConstantBuffer" -> ConstantBufferValue(row, lay)
      [] part = "UnityShaderSerializedProgram" -> ProgramValue(row, lay)
      [] OTHER -> SubProgramValue(row, lay)

PartInputs == [d \in PartDescs |-> PartBytes(d.part, d.row, d.written, ByteOrder(d))]

InitPart ==
    /\ build \in Builds
    /\ \E d \in PartDescs :
          /\ fixture = [fx |-> d]
          /\ reader = [data |-> PartInputs[d], pos |-> 0, endianness |-> "Big"]
          /\ asset = <<[metadata |-> [unity_version |-> d.row.v]]>>
    /\ ret = [op |-> "new", arg |-> 0, start |-> [pos |-> 0, endianness |-> "Big"],
              ok |-> TRUE, err |-> NoErr, val |-> <<>>]
    /\ runs = <<>>
    /\ calls = 0

\* UnityShaderConstantBuffer::deserialize(&mut reader, &asset)
DeserializeConstantBuffer ==
    /\ Running
    /\ fixture.fx.part = "UnityShaderConstantBuffer"
    /\ Returns("UnityShaderConstantBuffer", asset[1].metadata.unity_version,
               Call("Deserialize", reader,
                    <<UnityShaderConstantBuffer(asset[1].metadata.unity_version)>>))
    /\ Counted

\* UnityShaderSerializedProgram::deserialize(&mut reader, &asset)
DeserializeProgram ==
    /\ Running
    /\ fixture.fx.part = "UnityShaderSerializedProgram"
    /\ Returns("UnityShaderSerializedProgram", asset[1].metadata.unity_version,
               Call("Deserialize", reader,
                    <<UnityShaderSerializedProgram(asset[1].metadata.unity_version)>>))
    /\ Counted

\* UnityShaderSerializedSubProgram::deserialize(&mut reader, &asset)
DeserializeSubProgram ==
    /\ Running
    /\ fixture.fx.part = "UnityShaderSerializedSubProgram"
    /\ Returns("UnityShaderSerializedSubProgram", asset[1].metadata.unity_version,
               Call("Deserialize", reader,
                    <<UnityShaderSerializedSubProgram(asset[1].metadata.unity_version)>>))
    /\ Counted

NextPart ==
    \/ \E endianness \in {"Big", "Little"} : SetEndianness(endianness)
    \/ DeserializeConstantBuffer
    \/ DeserializeProgram
    \/ DeserializeSubProgram

SpecPart == InitPart /\ [][NextPart]_vars

(***************************************************************************)
(* The two ways of decoding an object: on the reader of the file, after    *)
(* seek_to_object, and with from_bytes on a copy of the bytes of the       *)
(* object, which the caller cuts out of the file.  The files have their    *)
(* object data 0..MaxShift bytes after a multiple of 16, and objects whose *)
(* records declare less, as much as, or more than their fields take.       *)
(***************************************************************************)
MaxShift == 3      \* data_offset is 0..MaxShift more than a multiple of 16

\* What the declared size of an object differs by from the size of its fields.
CopySlacks == {0 - 4, 0, 1}

CopyFixtures ==
    {Fx(V21, little, FALSE, FALSE, E19, Basic(1, 1, slack), 0, 4) @@ [shift |-> shift] :
        little \in BOOLEAN, slack \in CopySlacks, shift \in 0..MaxShift}
    \cup {Fx(V21, little, FALSE, FALSE, E20, <<ShaderObj(2, ValidEnums, 0)>>, 0, 4)
          @@ [shift |-> shift] : little \in BOOLEAN, shift \in {0, 3}}

\* The file of fx, as the serializer lays it out, with fx.shift more bytes before the object data, the
\* header saying so; the objects keep their offsets from data_offset.
Shifted(fx, file) ==
    LET header == FileHeader(fx, file.metadata_size, file.file_size + fx.shift,
                             file.data_offset + fx.shift)
    IN  [file EXCEPT
            !.data = header \o SubSeq(file.data, Len(header) + 1, file.data_offset)
                     \o [i \in 1..fx.shift |-> 255]
                     \o SubSeq(file.data, file.data_offset + 1, Len(file.data)),
            !.file_size = file.file_size + fx.shift,
            !.data_offset = file.data_offset + fx.shift,
            !.placed = [i \in 1..Len(file.placed) |->
                           [file.placed[i] EXCEPT !.start = @ + fx.shift]]]

CopyFiles == [fx \in CopyFixtures |-> Shifted(fx, Emit("File", <<fx>>))]

InitCopy ==
    /\ build \in Builds
    /\ \E fx \in CopyFixtures :
          LET file == CopyFiles[fx]
          IN  /\ fixture = [fx |-> fx, metadata_size |-> file.metadata_size,
                            file_size |-> file.file_size, data_offset |-> file.data_offset,
                            placed |-> file.placed]
              /\ reader = [data |-> file.data, pos |-> 0, endianness |-> "Big"]
    /\ asset = <<>>
    /\ ret = [op |-> "new", arg |-> 0, start |-> [pos |-> 0, endianness |-> "Big"],
              ok |-> TRUE, err |-> NoErr, val |-> <<>>]
    /\ runs = <<>>
    /\ calls = 0

\* The bytes of the object in the buffer: what the caller hands to from_bytes.
BytesOfObject(data, obj) ==
    LET start == PosOf(obj.byte_start)
        end == start + NatOfBytes(obj.byte_size)
    IN  SubSeq(data, start + 1, IF end < Len(data) THEN end ELSE Len(data))

\* from_bytes returns, to a caller whose reader it does not touch.
Copied(op, i, r) ==
    /\ ret' = [op |-> op, arg |-> i, start |-> [pos |-> 0, endianness |-> "Big"],
               ok |-> r.ok, err |-> r.err, val |-> r.val]
    /\ calls' = calls + 1
    /\ UNCHANGED <<reader, build, fixture, asset, runs>>

\* UnityMaterial::from_bytes(data, &asset), data the bytes of object i
MaterialFromBytes(i) ==
    /\ Running
    /\ asset # <<>>
    /\ i \in 1..Len(asset[1].objects)
    /\ Copied("UnityMaterial::from_bytes", i,
              Call("UnityMaterial_from_bytes", reader,
                   <<BytesOfObject(reader.data, asset[1].objects[i]), asset[1]>>))

\* UnityShader::from_bytes(data, &asset), data the bytes of object i
ShaderFromBytes(i) ==
    /\ Running
    /\ asset # <<>>
    /\ i \in 1..Len(asset[1].objects)
    /\ Copied("UnityShader::from_bytes", i,
              Call("UnityShader_from_bytes", reader,
                   <<BytesOfObject(reader.data, asset[1].objects[i]), asset[1]>>))

NextCopy ==
    \/ ReadAssetInfo
    \/ \E i \in 1..2 : SeekToObject(i)
    \/ DeserializeMaterial
    \/ DeserializeShader
    \/ \E i \in 1..2 : MaterialFromBytes(i)
    \/ \E i \in 1..2 : ShaderFromBytes(i)

SpecCopy == InitCopy /\ [][NextCopy]_vars

(***************************************************************************)
(* Properties                                                              *)
(***************************************************************************)
\* The file of the fixture is whole and of a supported format, and its
\* objects name types of its type table.
Supported(fx) == \E v \in 17..22 : fx.ver = <<0, 0, 0, v>>

Unindexed(fx) == {i \in 1..Len(fx.objs) : fx.objs[i].type_id \notin 0..(Len(fx.classes) - 1)}

WellFormed(fx) == Supported(fx) /\ fx.cut = 0 /\ Unindexed(fx) = {}

\* The wide header fields of format 22 are written big endian.
WideBig(fx) == fx.ver # <<0, 0, 0, 22>> \/ ~fx.ext_native \/ ~fx.little

\* The wide header fields of format 22 are written in the byte order the
\* endianness byte declares.
WideDeclared(fx) == fx.ver # <<0, 0, 0, 22>> \/ fx.ext_native \/ ~fx.little

\* The header the file of the fixture was written with.
WrittenHeader ==
    [metadata_size |-> BytesOfNat(fixture.metadata_size, 8),
     file_size |-> BytesOfNat(fixture.file_size, 8),
     version |-> fixture.fx.ver[4],
     data_offset |-> BytesOfNat(fixture.data_offset, 8),
     endianness |-> ByteOrder(fixture.fx)]

\* The descriptor object i of the fixture was written with.
WrittenObject(i) ==
    LET o == fixture.fx.objs[i]
    IN  [path_id |-> IntOfBytes(LowBytes(o.path, 4)),
         byte_start |-> BytesOfNat(fixture.placed[i].start, 8),
         byte_size |-> BytesOfNat(fixture.placed[i].len + o.slack, 4),
         type_id |-> o.type_id,
         class_id |-> fixture.fx.classes[o.type_id + 1]]

Described(O) ==
    [path_id |-> O.path_id, byte_start |-> O.byte_start, byte_size |-> O.byte_size,
     type_id |-> O.type_id, class_id |-> O.class_id]

\* The third 32 bit field of the header the last call started at.
VersionField ==
    LET w == SubSeq(reader.data, ret.start.pos + 9, ret.start.pos + 12)
    IN  IF ret.start.endianness = "Big" THEN w ELSE Reverse(w)

C2_ObjectTypes ==
    asset # <<>> =>
        \A i \in 1..Len(asset[1].objects) :
            LET O == asset[1].objects[i]
                types == asset[1].metadata.types
            IN  /\ O.type_id \in 0..(Len(types) - 1)
                /\ O.class_id = types[O.type_id + 1].class_id

C2_Witness ==
    /\ asset # <<>>
    /\ Len(asset[1].objects) = 2
    /\ asset[1].objects[1].type_id = 0 /\ asset[1].objects[1].class_id = 21
    /\ asset[1].objects[2].type_id = 2 /\ asset[1].objects[2].class_id = 114

\* C3: when an object record holds a type_id that indexes no entry of the
\* type table (negative, or at least the number of types), read_asset_info
\* fails with MissingType(type_id) and returns no AssetInfo.
C3_MissingType ==
    (/\ ret.op = "read_asset_info" /\ calls = 1
     /\ Supported(fixture.fx) /\ fixture.fx.cut = 0 /\ WideBig(fixture.fx)
     /\ Unindexed(fixture.fx) # {}) =>
        LET first == CHOOSE i \in Unindexed(fixture.fx) : \A j \in Unindexed(fixture.fx) : i <= j
        IN  /\ ~ret.ok
            /\ ret.err = [kind |-> "MissingType", arg |-> <<fixture.fx.objs[first].type_id>>]
            /\ asset = <<>>

C3_Witness ==
    /\ ret.op = "read_asset_info" /\ calls = 1
    /\ fixture.fx.objs[2].type_id = 3
    /\ ret.err = [kind |-> "MissingType", arg |-> <<3>>]

\* The i32 at the position the last call started at.
CountField ==
    LET w == SubSeq(reader.data, ret.start.pos + 1, ret.start.pos + 4)
    IN  IntOfBytes(IF ret.start.endianness = "Big" THEN w ELSE Reverse(w))

\* C4: after every successful deserialize_array the position is a multiple
\* of 4 and the sequence returned has exactly `count` elements, in file
\* order (as the specification states it).
C4_AsStated ==
    (ret.op = "deserialize_array" /\ ret.ok) =>
        /\ reader.pos % 4 = 0
        /\ Len(ret.val) = CountField
        /\ (calls = 1 /\ ret.arg = fixture.fx.elem) => ret.val = fixture.val

\* The shader of the fixture holds a discriminant no variant stands for.
BadDiscriminant(ints) ==
    \/ ints.typ \notin 0..2
    \/ ints.fog_mode \notin (0 - 1)..3
    \/ ints.gpu_program_type \notin 0..31

\* The last call decoded object i of the fixture from the AssetInfo and with
\* the byte order of a first read_asset_info.
Decoded(op, i) ==
    /\ ret.op = op
    /\ calls = 3
    /\ ret.arg = i
    /\ ret.start.pos = fixture.placed[i].start
    /\ asset # <<>>

\* C5: an unrecognized discriminant met while a Shader is decoded comes back
\* to the caller as the failure DeserializationError; the decoder does not
\* panic (as the specification states it).
C5_AsStated ==
    (/\ Decoded("UnityShader::deserialize", 1)
     /\ fixture.fx.objs[1].kind = "Shader"
     /\ BadDiscriminant(fixture.fx.objs[1].k.ints)) =>
        /\ ~ret.ok
        /\ ret.err.kind = "DeserializationError"

\* C6: get_pass_type maps 0, 1, 2 to Normal, Use, Grab; get_fog_mode maps
\* -1..3 to Unknown, Disabled, Linear, Exp, Exp2; get_gpu_program_type maps
\* each of 0..31 to the variant of that index of the enum, Unknown first and
\* RayTracing last, and no two of them to the same variant.
C6_EnumMappings ==
    /\ (ret.op = "get_pass_type" /\ ret.arg \in 0..2) =>
            ret.ok /\ ret.val = <<"Normal", "Use", "Grab">>[ret.arg + 1]
    /\ (ret.op = "get_fog_mode" /\ ret.arg \in (0 - 1)..3) =>
            ret.ok /\ ret.val = <<"Unknown", "Disabled", "Linear", "Exp", "Exp2">>[ret.arg + 2]
    /\ (ret.op = "get_gpu_program_type" /\ ret.arg \in 0..31) =>
            /\ ret.ok
            /\ Len(UnityShaderGpuProgramType) = 32
            /\ ret.val = UnityShaderGpuProgramType[ret.arg + 1]
            /\ ret.arg = 0 => ret.val = "Unknown"
            /\ ret.arg = 31 => ret.val = "RayTracing"
            /\ \A other \in 0..31 :
                  other # ret.arg => get_gpu_program_type(other) # ret.val

C6_Witness ==
    /\ ret.op = "get_gpu_program_type"
    /\ ret.arg = 31
    /\ ret.val = "RayTracing"

\* The header the last call returned, alone or in an AssetInfo.
ReturnedHeader == IF ret.op = "read_header" THEN ret.val ELSE ret.val.header

\* The last call, the first on the reader, returned the header and the
\* objects the file was written with.
ReadAsWritten ==
    /\ ret.ok
    /\ ReturnedHeader = WrittenHeader
    /\ ret.op = "read_asset_info" =>
          /\ Len(ret.val.objects) = Len(fixture.fx.objs)
          /\ \A i \in 1..Len(fixture.fx.objs) : Described(ret.val.objects[i]) = WrittenObject(i)
          /\ ret.val.metadata.target_platform = <<0, 0, 0, 19>>
          /\ reader.endianness = ByteOrder(fixture.fx)

\* C7: on a fresh reader the header fields before the endianness byte are
\* read big endian, the wide header fields of format 22 are read big endian
\* too (the reader takes the byte order of the file only after read_header),
\* and every field after the header is read in the byte order of that byte.
C7_HeaderByteOrder ==
    (/\ ret.op \in {"read_header", "read_asset_info"} /\ calls = 1
     /\ WellFormed(fixture.fx) /\ WideBig(fixture.fx)) =>
        ReadAsWritten

C7_Witness ==
    /\ ret.op = "read_asset_info" /\ calls = 1
    /\ fixture.fx.ver = <<0, 0, 0, 22>> /\ fixture.fx.little /\ ~fixture.fx.ext_native
    /\ ReadAsWritten

\* C7 as the specification states it: the wide header fields of format 22
\* are read in the byte order the endianness byte selects.
C7_AsStated ==
    (/\ ret.op \in {"read_header", "read_asset_info"} /\ calls = 1
     /\ WellFormed(fixture.fx) /\ WideDeclared(fixture.fx)) =>
        ReadAsWritten

\* What read_asset_info returns on a fresh reader over the file of fx.
FreshRead(fx) ==
    read_asset_info([data |-> (IF fx \in Fixtures THEN Files[fx] ELSE File(fx)).data,
                     pos |-> 0, endianness |-> "Big"])

SameButEndianness(a, b) ==
    [a EXCEPT !.header.endianness = "Big"] = [b EXCEPT !.header.endianness = "Big"]

\* C8: a file of a format 17..22 and the file with the other endianness
\* byte and every field after the header in the other byte order (the wide
\* header fields of format 22 staying big endian in both) give, from
\* read_asset_info, AssetInfos that differ in header.endianness only.
C8_EndiannessRoundTrip ==
    (/\ ret.op = "read_asset_info" /\ calls = 1
     /\ WellFormed(fixture.fx) /\ ~fixture.fx.ext_native) =>
        LET other == FreshRead([fixture.fx EXCEPT !.little = ~@])
        IN  /\ ret.ok /\ other.ok
            /\ SameButEndianness(ret.val, other.val)
            /\ ret.val.header.endianness # other.val.header.endianness

C8_Witness ==
    /\ ret.op = "read_asset_info" /\ calls = 1 /\ ret.ok
    /\ fixture.fx.ver = <<0, 0, 0, 22>> /\ ~fixture.fx.little /\ ~fixture.fx.ext_native
    /\ fixture.fx.type_tree
    /\ FreshRead([fixture.fx EXCEPT !.little = TRUE]).ok

\* C8 as the specification states it: every multi byte field after the
\* endianness byte is swapped, the wide header fields of format 22 among them.
C8_AsStated ==
    (/\ ret.op = "read_asset_info" /\ calls = 1
     /\ WellFormed(fixture.fx) /\ ~fixture.fx.little /\ ~fixture.fx.ext_native) =>
        LET other == FreshRead([fixture.fx EXCEPT !.little = TRUE, !.ext_native = TRUE])
        IN  /\ ret.ok /\ other.ok
            /\ SameButEndianness(ret.val, other.val)

\* C9: seek_to_object and a Material or Shader deserialize, made twice on
\* the same reader, object and AssetInfo, give equal results (the same value
\* or the same failure) and leave the reader at the same position; a decode
\* leaves the endianness of the reader as it was.
C9_DecodeIdempotent ==
    /\ \A i \in 1..Len(runs) : runs[i].after = runs[i].before
    /\ Len(runs) = 2 =>
          /\ runs[1].obj = runs[2].obj
          /\ runs[1].ok = runs[2].ok
          /\ runs[1].err = runs[2].err
          /\ runs[1].val = runs[2].val
          /\ runs[1].pos = runs[2].pos

C9_Witness ==
    /\ Len(runs) = 2
    /\ runs[1].kind = "Material" /\ runs[1].index = 1
    /\ runs[2].ok
    /\ runs[2].val = fixture.placed[1].val
    /\ runs[2].val.name # <<>>

\* The last decode was of an object as the file holds it, by the decoder of
\* its kind, in the byte order of the file, and it succeeded.
DecodedInPlace(run) ==
    /\ run.ok
    /\ fixture.fx.objs[run.index].kind = run.kind
    /\ Described(run.obj) = WrittenObject(run.index)
    /\ run.before = ByteOrder(fixture.fx)
    /\ run.version = ParseUnityVersion(fixture.fx.engine.str)[1]

\* C10: after seek_to_object(O) and a successful Material or Shader
\* deserialize the reader is at O.byte_start plus the bytes of the fields
\* the decoder reads, which is O.byte_start + O.byte_size only for an object
\* declared with exactly that many bytes: byte_size is never consulted.
C10_ConsumesItsFields ==
    \A n \in 1..Len(runs) :
        DecodedInPlace(runs[n]) =>
            /\ runs[n].pos = fixture.placed[runs[n].index].start
                             + fixture.placed[runs[n].index].len
            /\ runs[n].pos = PosOf(runs[n].obj.byte_start) + NatOfBytes(runs[n].obj.byte_size)
                             - fixture.fx.objs[runs[n].index].slack
            /\ runs[n].val = fixture.placed[runs[n].index].val

C10_Witness ==
    /\ Len(runs) = 1
    /\ DecodedInPlace(runs[1])
    /\ runs[1].kind = "Shader"
    /\ fixture.fx.objs[runs[1].index].slack = 4
    /\ runs[1].pos = PosOf(runs[1].obj.byte_start) + NatOfBytes(runs[1].obj.byte_size) - 4

\* C10 as the specification states it: the decoder consumes exactly the
\* declared size of the object.
C10_AsStated ==
    \A n \in 1..Len(runs) :
        DecodedInPlace(runs[n]) =>
            runs[n].pos = PosOf(runs[n].obj.byte_start) + NatOfBytes(runs[n].obj.byte_size)

(***************************************************************************)
(* The byte reader on short buffers (SpecBytes)                            *)
(***************************************************************************)
\* The bytes between where the last call started and the end of the buffer;
\* negative when it started past the end.
Remaining == Len(reader.data) - ret.start.pos

\* The u32 where the last call started, in the byte order it started with.
PrefixAt ==
    LET w == SubSeq(reader.data, ret.start.pos + 1, ret.start.pos + 4)
    IN  IF ret.start.endianness = "Big" THEN w ELSE Reverse(w)

\* count elements of `size` bytes are more than m bytes.
Exceeds(count, size, m) == m < 0 \/ ~FitsNat(count) \/ NatOfBytes(count) > m \div size

\* The last call was a read that needs more bytes than remained.
ShortRead ==
    \/ /\ ret.op \in DOMAIN FixedReads
       /\ FixedReads[ret.op] > Remaining
    \/ /\ ret.op = "read_bytes"
       /\ ByteCounts[ret.arg] # Zeros(8)
       /\ Exceeds(ByteCounts[ret.arg], 1, Remaining)
    \/ /\ ret.op \in DOMAIN CountedReads
       /\ (Remaining < 4 \/ Exceeds(ZeroExtend(PrefixAt, 8), CountedReads[ret.op], Remaining - 4))

Seeks == {"seek", "seek_to_object", "align"}

\* Where the last call, a seek, was to take the reader.
SeekTarget ==
    CASE ret.op = "seek" -> ret.arg
      [] ret.op = "align" -> ((ret.start.pos + 3) \div 4) * 4
      [] ret.op = "seek_to_object" -> PosOf(ByteStarts[ret.arg])

\* The last call was read_header from the start of a buffer that ends in
\* the three reserved bytes of a header of a supported format.
EndsInReserved ==
    /\ ret.op = "read_header"
    /\ ret.start.pos = 0
    /\ Len(reader.data) \in 17..19
    /\ FitsNat(VersionField)
    /\ NatOfBytes(VersionField) \in 17..21

C12_AsStated ==
    ret.op = "read_header" /\ ret.ok =>
        ~SeqLess(ret.val.file_size, ret.val.data_offset)

(***************************************************************************)
(* The stages of read_asset_info (Spec)                                    *)
(***************************************************************************)
\* The stage readers run by hand on rd, as the tests of reader.rs run them:
\* each one from where the one before it ended, stopping at the first
\* failure.
ByHand(rd) ==
    LET hdr == read_header(rd)
        set == set_endianness(hdr.rd, hdr.val.endianness)
        metadata == read_metadata(set, hdr.val.version)
        objects == read_objects(metadata.rd, hdr.val, metadata.val)
        script_types == read_script_types(objects.rd)
        externals == read_externals(script_types.rd)
        ref_types == IF hdr.val.version >= 20
                     THEN read_ref_types(externals.rd, metadata.val, hdr.val.version)
                     ELSE Ok(externals.rd, <<>>)
        user_information == read_null_terminated_string(ref_types.rd)
    IN  CASE ~hdr.ok -> hdr
          [] ~metadata.ok -> metadata
          [] ~objects.ok -> objects
          [] ~script_types.ok -> script_types
          [] ~externals.ok -> externals
          [] ~ref_types.ok -> ref_types
          [] ~user_information.ok -> user_information
          [] OTHER -> Ok(user_information.rd,
                         [header |-> hdr.val, metadata |-> metadata.val,
                          objects |-> objects.val, script_types |-> script_types.val,
                          externals |-> externals.val, ref_types |-> ref_types.val,
                          user_information |-> user_information.val])

\* The last call was read_asset_info on a reader nothing had been called on.
OnFreshReader ==
    /\ ret.op = "read_asset_info"
    /\ calls = 1
    /\ ret.start = [pos |-> 0, endianness |-> "Big"]

\* C13: read_asset_info on a fresh reader returns what the stage readers
\* return when run by hand in the order header, set endianness, metadata,
\* objects, script types, externals, reference types, user information on a
\* fresh reader over the same bytes, and leaves its reader as they leave
\* theirs; the reference types are the ones of the file for the formats 20
\* and above and the empty list for the formats 17..19.
C13_StagesInOrder ==
    OnFreshReader =>
        LET hand == ByHand([data |-> reader.data, pos |-> 0, endianness |-> "Big"])
        IN  /\ ret.ok = hand.ok
            /\ ret.err = hand.err
            /\ ret.val = hand.val
            /\ reader = hand.rd
            /\ ret.ok /\ ret.val.header.version < 20 => ret.val.ref_types = <<>>
            /\ ret.ok /\ ret.val.header.version >= 20 /\ WellFormed(fixture.fx) =>
                  Len(ret.val.ref_types) = fixture.fx.ref_types

\* read_asset_info has returned the AssetInfo of a file of format 21, with
\* its reference type, on a fresh reader.
C13_Witness ==
    /\ OnFreshReader
    /\ ret.ok
    /\ ret.val.header.version = 21
    /\ Len(ret.val.ref_types) = 1
    /\ ret.val.header.endianness = "Little"

(***************************************************************************)
(* The object records (SpecObject)                                         *)
(***************************************************************************)
\* The first multiple of 4 from where the last call started.
AlignedStart == ((ret.start.pos + 3) \div 4) * 4

\* The n bytes at pos as a word, in the byte order the last call started with.
WordAt(pos, n) ==
    LET w == SubSeq(reader.data, pos + 1, pos + n)
    IN  IF ret.start.endianness = "Big" THEN w ELSE Reverse(w)

\* The width of the offset of an object record of the format of the fixture.
OffsetWidth == IF fixture.fx.version = 22 THEN 8 ELSE 4

\* The offset stored in the record the last call read, as an i64.
StoredOffset == ZeroExtend(WordAt(AlignedStart + 8, OffsetWidth), 8)

\* C14 as the specification states it: the descriptor read_object returns
\* has, of the record that starts at the first multiple of 4 from where the
\* reader was, byte_start = the stored offset (an i64 for format 22, a u32
\* for the formats below) plus the header's data_offset, the sum being the
\* sum of the two numbers, byte_size = the u32 that follows and type_id =
\* the i32 after it.
C14_AsStated ==
    ret.op = "read_object" /\ ret.ok =>
        /\ ~AddOverflows(StoredOffset, ObjectDataOffset)
        /\ ret.val.byte_start = WrappingAdd(StoredOffset, ObjectDataOffset)
        /\ FitsNat(StoredOffset) /\ NatOfBytes(StoredOffset) < 1024 =>
              ret.val.byte_start = BytesOfNat(NatOfBytes(StoredOffset) + 32, 8)
        /\ ret.val.byte_size = WordAt(AlignedStart + 8 + OffsetWidth, 4)
        /\ ret.val.type_id = IntOfBytes(WordAt(AlignedStart + 12 + OffsetWidth, 4))
        /\ reader.pos = AlignedStart + 16 + OffsetWidth

\* The last call read a count, at its start, of more elements than the
\* bytes behind the count hold.
CountPastEnd ==
    /\ ret.op \in {"read_byte_array", "read_u32_array"}
    /\ Remaining >= 4
    /\ Exceeds(ZeroExtend(PrefixAt, 8), CountedReads[ret.op], Remaining - 4)

\* The last call was read_type_tree_blob(version) on a number_of_nodes or a
\* string_buffer_size that is negative or more than the bytes behind them
\* hold, a node being 24 bytes, or 32 from format 19 on.
BlobPastEnd ==
    /\ ret.op = "read_type_tree_blob"
    /\ Remaining >= 8
    /\ LET n == IntOfBytes(WordAt(ret.start.pos, 4))
           sz == IntOfBytes(WordAt(ret.start.pos + 4, 4))
           node == IF ret.arg >= 19 THEN 32 ELSE 24
       IN  \/ n < 0
           \/ sz < 0
           \/ n > (Remaining - 8) \div node
           \/ sz > Remaining - 8 - n * node

\* C15 as the specification states it: a length prefix the reader cannot
\* satisfy makes the call return an AssetReaderError; it neither panics nor
\* succeeds.
C15_AsStated ==
    CountPastEnd \/ BlobPastEnd => ~ret.ok /\ ret.err.kind \in ErrorKinds

\* The i64 word w reduced modulo 2^32 and taken as a signed 32 bit number.
Narrowed(w) ==
    LET b == SubSeq(w, 5, 8)
    IN  IF b[1] < 128
        THEN ((b[1] * 256 + b[2]) * 256 + b[3]) * 256 + b[4]
        ELSE 0 - 1 - ((((255 - b[1]) * 256 + (255 - b[2])) * 256 + (255 - b[3])) * 256
                      + (255 - b[4]))

\* The last call read the record of the fixture where it starts, in the byte
\* order it was written in.
RecordInPlace ==
    /\ ret.op = "read_object"
    /\ AlignedStart = 4
    /\ ret.start.endianness = ByteOrder(fixture.fx)

\* C16: the path_id of the descriptor read_object returns is the i64 of the
\* record reduced modulo 2^32 and taken as a signed 32 bit number: the i64
\* itself when it is within 32 bits, and the same number for i64s that
\* differ by multiples of 2^32; read_script_types narrows
\* local_identifier_in_file in the same way.
C16_PathIdNarrowing ==
    /\ ret.op = "read_object" /\ ret.ok =>
          /\ ret.val.path_id = Narrowed(WordAt(AlignedStart, 8))
          /\ RecordInPlace /\ fixture.fx.path \in {1, 2, 3} => ret.val.path_id = 277
          /\ RecordInPlace /\ fixture.fx.path = 4 => ret.val.path_id = 0 - 208
          /\ RecordInPlace /\ fixture.fx.path = 5 => ret.val.path_id = 0 - 2147483647 - 1
    /\ ret.op = "read_script_types" /\ ret.ok =>
          \A i \in 1..Len(ret.val) :
              ret.val[i].local_identifier_in_file =
                  Narrowed(WordAt(((ret.start.pos + 12 * i - 4 + 3) \div 4) * 4, 8))

\* A record whose path_id is 2^32 + 277 has been read as path_id 277, and a
\* script type with that identifier in the same way.
C16_Witness ==
    /\ fixture.fx.path = 2
    /\ \/ RecordInPlace /\ ret.ok /\ ret.val.path_id = 277
       \/ /\ ret.op = "read_script_types"
          /\ ret.ok
          /\ Len(ret.val) = 1
          /\ ret.val[1].local_identifier_in_file = 277

\* The sheet the buffer of the fixture was written from: the pairs of each
\* map in the order of the file.
WrittenSheet ==
    [m \in 1..3 |->
        [keys |-> [i \in 1..fixture.fx.counts[m] |-> SheetKey(m, i)],
         vals |-> [i \in 1..fixture.fx.counts[m] |-> SheetVal(m, i)]]]

\* The sheet the caller holds was decoded from the start of a whole buffer,
\* in the byte order it was written in.
SheetInPlace ==
    /\ runs # <<>>
    /\ runs[1].start = [pos |-> 0, endianness |-> ByteOrder(fixture.fx)]
    /\ fixture.fx.cut = 0

\* The map an accessor reads: 1 tex_envs, 2 floats, 3 colors.
MapOf(op) ==
    CASE op \in {"get_tex_env_count", "get_tex_env_name", "get_tex_env"} -> 1
      [] op \in {"get_float_count", "get_float_name", "get_float"} -> 2
      [] OTHER -> 3

\* C17: a decoded property sheet holds the pairs of the three maps in the
\* order of the file, tex_envs first, then floats, then colors, read back to
\* back; get_*_count() is the number of pairs decoded, and for every idx
\* below it get_*_name(idx) and get_*(idx) return the key and the value of
\* the idx-th pair of the file.
C17_FileOrder ==
    /\ (ret.op = "UnityPropertySheet::deserialize" /\ fixture.fx.cut = 0
        /\ ret.start = [pos |-> 0, endianness |-> ByteOrder(fixture.fx)]) =>
          /\ ret.ok
          /\ ret.val = [tex_envs |-> WrittenSheet[1], floats |-> WrittenSheet[2],
                        colors |-> WrittenSheet[3]]
          /\ reader.pos = Len(reader.data)
    /\ ret.op \in Counts /\ SheetInPlace =>
          ret.ok /\ ret.val = fixture.fx.counts[MapOf(ret.op)]
    /\ ret.op \in Names /\ SheetInPlace /\ ret.arg < fixture.fx.counts[MapOf(ret.op)] =>
          ret.ok /\ ret.val = SheetKey(MapOf(ret.op), ret.arg + 1)
    /\ ret.op \in {"get_float", "get_color"} /\ SheetInPlace
       /\ ret.arg < fixture.fx.counts[MapOf(ret.op)] =>
          ret.ok /\ ret.val = SheetVal(MapOf(ret.op), ret.arg + 1)
    /\ ret.op = "get_tex_env" /\ SheetInPlace /\ ret.arg < fixture.fx.counts[1] =>
          ret.ok /\ ret.val = <<SheetVal(1, ret.arg + 1)>>

\* The name of the second color of a sheet with two pairs in every map has
\* been read.
C17_Witness ==
    /\ ret.op = "get_color_name"
    /\ ret.arg = 1
    /\ ret.ok
    /\ SheetInPlace
    /\ \A m \in 1..3 : fixture.fx.counts[m] = 2

\* C18: align leaves the reader at the smallest multiple of 4 that is not
\* below the position it was called at: not before it, at most 3 bytes after
\* it, at it when it is a multiple of 4; a second align changes nothing; and
\* align changes nothing of the reader but its position.
C18_AsStated ==
    ret.op = "align" =>
        /\ ret.ok
        /\ reader.pos % 4 = 0
        /\ reader.pos >= ret.start.pos
        /\ reader.pos - ret.start.pos <= 3
        /\ ret.start.pos % 4 = 0 => reader.pos = ret.start.pos
        /\ align(reader) = Ok(reader, reader.pos)
        /\ reader.data = fixture.fx.data
        /\ reader.endianness = ret.start.endianness

\* C19: a read_char_array that succeeds has read a u32 length n where it
\* started and the n bytes after it: the string it returns has n characters,
\* the i-th of them the code point that is the i-th byte, and the reader is
\* at the smallest multiple of 4 that is not below start + 4 + n.
C19_CharArray ==
    ret.op = "read_char_array" /\ ret.ok =>
        /\ FitsNat(PrefixAt)
        /\ Len(ret.val) = NatOfBytes(PrefixAt)
        /\ \A i \in 1..Len(ret.val) : ret.val[i] = reader.data[ret.start.pos + 4 + i]
        /\ reader.pos % 4 = 0
        /\ reader.pos >= ret.start.pos + 4 + Len(ret.val)
        /\ reader.pos - 4 < ret.start.pos + 4 + Len(ret.val)

\* A string of three characters has been read, and the reader aligned
\* after it.
C19_Witness ==
    /\ ret.op = "read_char_array"
    /\ ret.ok
    /\ Len(ret.val) = 3
    /\ reader.pos = ret.start.pos + 8

\* read_unity_type was called at the start of the record of the fixture, in
\* the byte order and with the is_ref_type the record was written with, and
\* with the type tree enabled.
TypeInPlace ==
    /\ ret.op = "read_unity_type"
    /\ ret.start = [pos |-> 0, endianness |-> ByteOrder(fixture.fx)]
    /\ ret.arg.is_ref_type = fixture.fx.is_ref_type
    /\ ret.arg.enable_type_tree

\* The call decoded the record, all of it.
DecodedWhole == ret.ok /\ reader.pos = Len(reader.data)

\* C20 (as the code has it): with the type tree enabled, a type is decoded
\* with the blob encoding of the type tree for the format versions from 12
\* on and for version 10, and with the recursive encoding for the others
\* (11, and those below 10).
C20_Encoding ==
    /\ TypeInPlace /\ fixture.fx.tree = "blob" =>
          (DecodedWhole <=> fixture.fx.version >= 12 \/ fixture.fx.version = 10)
    /\ TypeInPlace /\ fixture.fx.tree = "recursive" =>
          (DecodedWhole <=> ~(fixture.fx.version >= 12 \/ fixture.fx.version = 10))

\* A type of format 17 with a type tree in the blob encoding has been
\* decoded.
C20_Witness ==
    /\ TypeInPlace
    /\ fixture.fx.version = 17
    /\ fixture.fx.tree = "blob"
    /\ DecodedWhole

\* C20 (as stated): the blob encoding for the format versions 12 and 10, the
\* recursive encoding for every other version.
C20_AsStated ==
    /\ TypeInPlace /\ fixture.fx.tree = "blob" =>
          (DecodedWhole <=> fixture.fx.version \in {12, 10})
    /\ TypeInPlace /\ fixture.fx.tree = "recursive" =>
          (DecodedWhole <=> fixture.fx.version \notin {12, 10})

\* read_unity_type was called at the start of the record of the fixture, in
\* the byte order and with the is_ref_type the record was written with.
TypeCalled ==
    /\ ret.op = "read_unity_type"
    /\ ret.start = [pos |-> 0, endianness |-> ByteOrder(fixture.fx)]
    /\ ret.arg.is_ref_type = fixture.fx.is_ref_type

\* The type tree of the record is in the encoding of its format.
OwnEncoding(d) ==
    d.tree = IF d.version >= 12 \/ d.version = 10 THEN "blob" ELSE "recursive"

\* What the type returned holds of the section that follows a type tree.
Trailing == <<ret.val.class_name, ret.val.name_space, ret.val.asm_name,
              ret.val.type_dependencies>>

\* That section as the records have it: the three strings of a reference
\* type, the one dependency of a type.
WrittenTrailing(d) ==
    IF d.is_ref_type THEN <<<<67>>, <<78>>, <<65>>, <<>>>>
    ELSE <<<<>>, <<>>, <<>>, <<<<0, 0, 1, 5>>>>>>

\* C21 (as the code has it): with the type tree enabled, a SerializedType
\* of a format from 21 on ends, after its type tree, with three null
\* terminated strings (class, namespace, assembly) when is_ref_type and
\* with a u32 array of type dependencies otherwise, and one of a format
\* below 21 ends with its type tree; with the type tree disabled neither is
\* read in any format: the record ends where the type tree would start.
C21_Trailing ==
    /\ TypeCalled /\ ret.arg.enable_type_tree /\ OwnEncoding(fixture.fx) =>
          /\ DecodedWhole
          /\ Trailing = IF fixture.fx.version >= 21 THEN WrittenTrailing(fixture.fx)
                        ELSE <<<<>>, <<>>, <<>>, <<>>>>
    /\ TypeCalled /\ ~ret.arg.enable_type_tree =>
          /\ ret.ok
          /\ reader.pos = TypeHeadLen(fixture.fx)
          /\ Trailing = <<<<>>, <<>>, <<>>, <<>>>>

\* A type of format 22 has been decoded with the type tree disabled, and
\* the section written after its hash has not been read.
C21_Witness ==
    /\ TypeCalled
    /\ ret.ok
    /\ ~ret.arg.enable_type_tree
    /\ fixture.fx.version = 22
    /\ fixture.fx.tree = "bare"
    /\ reader.pos < Len(reader.data)

\* C21 (as stated): in the formats from 21 on the section is read whether
\* or not the type tree is enabled.
C21_AsStated ==
    TypeCalled /\ ~ret.arg.enable_type_tree /\ fixture.fx.tree = "bare"
    /\ fixture.fx.version >= 21 =>
        DecodedWhole /\ Trailing = WrittenTrailing(fixture.fx)

\* read_type_tree has returned a tree it read from the start of the buffer.
TreeRead == ret.op = "read_type_tree" /\ ret.ok /\ ret.start.pos = 0

RECURSIVE TreeEnd(_, _)
RECURSIVE TreeSkip(_, _, _)
\* The index after the last node of the subtree of node i, the nodes of a
\* tree standing each before its children.
TreeEnd(shape, i) ==
    IF i > Len(shape) THEN i
    ELSE IF shape[i] <= 0 THEN i + 1
    ELSE TreeSkip(shape, i + 1, shape[i])

\* The index after n subtrees from node j on.
TreeSkip(shape, j, n) ==
    IF n = 0 \/ j > Len(shape) THEN j ELSE TreeSkip(shape, TreeEnd(shape, j), n - 1)

\* The level of node j: the number of the nodes it is below.
LevelOf(shape, j) == Cardinality({i \in 1..(j - 1) : TreeEnd(shape, i) > j})

RECURSIVE SumOfPositive(_)
SumOfPositive(counts) ==
    IF counts = <<>> THEN 0
    ELSE (IF Head(counts) > 0 THEN Head(counts) ELSE 0) + SumOfPositive(Tail(counts))

\* C22: the tree read_type_tree returns has its root at level 0 and the
\* children of a node of level L that reports a positive children_count at
\* level L + 1, and it has 1 node and as many more as the sum of the
\* positive children_count read.
C22_AsStated ==
    TreeRead =>
        /\ \A j \in 1..Len(ret.val) : ret.val[j] = LevelOf(fixture.fx.shape, j)
        /\ Len(ret.val) = 1 + SumOfPositive(runs[1].children)

\* C30: read_type_tree terminates on every buffer, whatever the
\* children_count of its nodes: a turn of its loop that does not leave the
\* function consumes at least one byte, the function fails with an IO
\* error only, and once entered it returns.
C30_Terminates ==
    /\ [][InReadTypeTree /\ InReadTypeTree' /\ runs' # runs => reader'.pos > reader.pos]_vars
    /\ [](ret.op = "read_type_tree" /\ ~ret.ok => ret.err.kind = "IO")
    /\ InReadTypeTree ~> ret.op = "read_type_tree"

\* read_type_tree has read a children_count of 2^31 - 1 and has ended with
\* an IO error at the end of the buffer.
C30_Witness ==
    /\ ret.op = "read_type_tree"
    /\ ret.err.kind = "IO"
    /\ runs[1].children # <<>>
    /\ runs[1].children[Len(runs[1].children)] = 2147483647
    /\ runs[1].level_stack # <<>>

\* A part of the fixture's kind was decoded from the start of the buffer, in
\* the byte order it was written in.
PartDecoded(part) ==
    /\ ret.op = part
    /\ fixture.fx.part = part
    /\ ret.start.pos = 0
    /\ ret.start.endianness = ByteOrder(fixture.fx)

\* The decode read the whole buffer and returned the value written.
PartWhole ==
    /\ ret.ok
    /\ reader.pos = Len(reader.data)
    /\ ret.val = PartValue(fixture.fx.part, fixture.fx.row, fixture.fx.written)

\* C23: is_partial_cb of a constant buffer (a bool, then alignment to 4) and
\* common_parameters of a serialized program are present under one and the
\* same condition on the engine version v: v >= 2021.1.4, or v.major = 2020
\* and v >= 2020.3.2.  A part decoded for v holds the field exactly then, a
\* part written with the field decodes whole exactly then, and for 2021.1.0
\* to 2021.1.3 both fields are absent.
C23_PartialConstantBuffers ==
    /\ PartDecoded("UnityShaderConstantBuffer") =>
          /\ ret.ok => (ret.val.is_partial_cb # <<>> <=> fixture.fx.row.partial)
          /\ PartWhole <=> fixture.fx.written = LayoutOf(fixture.fx.row)
    /\ PartDecoded("UnityShaderSerializedProgram") =>
          /\ ret.ok => (ret.val.common_parameters # <<>> <=> fixture.fx.row.partial)
          /\ fixture.fx.written = LayoutOf(fixture.fx.row) => PartWhole
          /\ fixture.fx.written.partial # fixture.fx.row.partial => ~PartWhole
    /\ (ret.op \in {"UnityShaderConstantBuffer", "UnityShaderSerializedProgram"} /\ ret.ok
        /\ ret.arg[1] = 2021 /\ ret.arg[2] = 1 /\ ret.arg[3] \in 0..3) =>
          /\ ret.op = "UnityShaderConstantBuffer" => ret.val.is_partial_cb = <<>>
          /\ ret.op = "UnityShaderSerializedProgram" => ret.val.common_parameters = <<>>

\* A program of 2020.3.2f1 was decoded whole, common_parameters included.
C23_Witness ==
    /\ PartDecoded("UnityShaderSerializedProgram")
    /\ PartWhole
    /\ ret.arg = <<2020, 3, 2, 2, 1>>
    /\ ret.val.common_parameters # <<>>

\* The sub-programs a decode of the fixture's part returned.
SubProgramsDecoded ==
    IF ~ret.ok THEN {}
    ELSE IF PartDecoded("UnityShaderSerializedSubProgram") THEN {ret.val}
    ELSE IF PartDecoded("UnityShaderSerializedProgram")
    THEN {ret.val.sub_programs[i] : i \in 1..Len(ret.val.sub_programs)}
    ELSE {}

\* C24: a decoded sub-program holds exactly one encoding of its keywords:
\* for 2019 <= engine < 2021.2 global_keyword_indices and
\* local_keyword_indices, each followed by alignment to 4, and no
\* keyword_indices; otherwise keyword_indices alone, followed by alignment to
\* 4 exactly when engine >= 2017.  parameters is present in all cases.
C24_KeywordEncodings ==
    /\ \A sub \in SubProgramsDecoded :
          /\ sub.parameters # <<>>
          /\ IF fixture.fx.row.keywords = "split"
             THEN /\ sub.global_keyword_indices # <<>>
                  /\ sub.local_keyword_indices # <<>>
                  /\ sub.keyword_indices = <<>>
             ELSE /\ sub.global_keyword_indices = <<>>
                  /\ sub.local_keyword_indices = <<>>
                  /\ sub.keyword_indices # <<>>
    /\ PartDecoded("UnityShaderSerializedSubProgram") =>
          (PartWhole <=> fixture.fx.written = LayoutOf(fixture.fx.row))
    /\ (PartDecoded("UnityShaderSerializedProgram")
        /\ fixture.fx.written.keywords # fixture.fx.row.keywords) => ~PartWhole

\* A sub-program of 2019.4.40f1 was decoded whole, with its two arrays.
C24_Witness ==
    /\ PartDecoded("UnityShaderSerializedSubProgram")
    /\ PartWhole
    /\ ret.arg = <<2019, 4, 40, 2, 1>>
    /\ ret.val.global_keyword_indices = << <<258>> >>
    /\ ret.val.local_keyword_indices = << <<259>> >>

\* C25: shader_requirements of a sub-program is present exactly when engine
\* >= 2017.2; it is read as an i64 of 8 bytes exactly when engine >= 2021 and
\* otherwise as an i32 of 4 bytes widened with its sign (-2 stays -2), and it
\* is the last field the decoder of the sub-program consumes.
C25_ShaderRequirements ==
    PartDecoded("UnityShaderSerializedSubProgram") =>
       /\ ret.ok => (ret.val.shader_requirements # <<>>
                        <=> fixture.fx.row.requirements # "none")
       /\ fixture.fx.written = LayoutOf(fixture.fx.row) =>
             /\ ret.ok
             /\ reader.pos = Len(reader.data)
             /\ ret.val.shader_requirements =
                   CASE fixture.fx.row.requirements = "i64" ->
                           << <<0, 0, 0, 1, 0, 0, 0, 2>> >>
                     [] fixture.fx.row.requirements = "i32" ->
                           <<BytesOfInt(0 - 2, 8)>>
                     [] OTHER -> <<>>
       /\ (fixture.fx.written.keywords = fixture.fx.row.keywords
           /\ fixture.fx.written.requirements # fixture.fx.row.requirements) =>
             ~(ret.ok /\ reader.pos = Len(reader.data))

\* A sub-program of 2018.4.36f1 was decoded, its requirements the i32 -2.
C25_Witness ==
    /\ PartDecoded("UnityShaderSerializedSubProgram")
    /\ ret.ok
    /\ reader.pos = Len(reader.data)
    /\ ret.arg = <<2018, 4, 36, 2, 1>>
    /\ ret.val.shader_requirements = << <<255, 255, 255, 255, 255, 255, 255, 254>> >>

\* Object ret.arg, of the kind of the decoder, was decoded both ways: on the
\* reader of the file after seek_to_object (the last of runs), and by
\* from_bytes on a copy of its bytes (ret).
DecodedBothWays(kind) ==
    /\ ret.op = IF kind = "Material" THEN "UnityMaterial::from_bytes"
                ELSE "UnityShader::from_bytes"
    /\ fixture.fx.objs[ret.arg].kind = kind
    /\ runs # <<>>
    /\ runs[Len(runs)].index = ret.arg
    /\ runs[Len(runs)].kind = kind

\* The two decodes returned the same value, or failed with the same error.
SameResult ==
    LET run == runs[Len(runs)]
    IN  /\ ret.ok = run.ok
        /\ ret.ok => ret.val = run.val
        /\ ~ret.ok => \/ ret.err = run.err
                      \/ ret.err.kind = "String" /\ ret.err.arg[1] = run.err.kind

\* C26: from_bytes on a copy of the bytes of an object (a reader of its own
\* at position 0, in the byte order of asset.header) returns what
\* seek_to_object and deserialize return on the reader of the file, for
\* every object, also one whose byte_start is not a multiple of 4.
C26_AsStated ==
    \A kind \in {"Material", "Shader"} : DecodedBothWays(kind) => SameResult

\* What read_header and read_asset_info return on a reader that AssetReader::new
\* has just made on the bytes of the reader.
FreshReader == [data |-> reader.data, pos |-> 0, endianness |-> "Big"]

SameAsFresh(fresh) == ret.ok = fresh.ok /\ ret.val = fresh.val /\ ret.err = fresh.err

\* C27: what read_header decodes does not depend on what the reader did
\* before: called at offset 0 after any calls (a read_asset_info of a little
\* endian file, say, and a seek to 0), read_header and read_asset_info
\* return what they return on a fresh reader on the same bytes.
C27_AsStated ==
    /\ (ret.op = "read_header" /\ ret.start.pos = 0) => SameAsFresh(read_header(FreshReader))
    /\ (ret.op = "read_asset_info" /\ ret.start.pos = 0) =>
          SameAsFresh(read_asset_info(FreshReader))

\* The offset after the last byte of the declared range of an object.
RangeEnd(obj) == PosOf(obj.byte_start) + NatOfBytes(obj.byte_size)

\* C28: after seek_to_object(O), the decode of a Material or a Shader reads
\* no byte at an offset >= O.byte_start + O.byte_size: an object whose
\* fields would run past its declared range fails, and the bytes after the
\* range are not consumed.
C28_AsStated ==
    \A n \in 1..Len(runs) :
       runs[n].kind = fixture.fx.objs[runs[n].index].kind =>
          /\ runs[n].pos <= RangeEnd(runs[n].obj)
          /\ fixture.fx.objs[runs[n].index].slack < 0 => ~runs[n].ok

\* C29: the index accessors of a property sheet never abort: get_tex_env(idx)
\* returns None for idx at or above get_tex_env_count() and the idx-th value
\* below it.
C29_AsStated ==
    /\ ret.op \in Names \cup Values => ret.err.kind \notin PanicKinds
    /\ ret.op = "get_tex_env" =>
          LET tex_envs == runs[1].val.tex_envs
          IN  /\ ret.ok
              /\ ret.val = IF ret.arg >= Len(tex_envs.keys) THEN <<>>
                           ELSE <<tex_envs.vals[ret.arg + 1]>>

=============================================================================
